---- MODULE Spec2Model ----
(***************************************************************************)
(* Model of the RealtimeDestructibleMesh structural-integrity core:        *)
(*   - FGridCellCache / FQuantizedDestructionInput (GridCellTypes.cpp)      *)
(*   - FCellDestructionSystem and FDestructionBatchProcessor                *)
(*     (CellDestructionSystem.cpp)                                          *)
(*   - FStructuralIntegritySystem (StructuralIntegritySystem.cpp)           *)
(*                                                                         *)
(* Lengths are integers.  World/local points and quantized shape fields    *)
(* are in "MM" units (0.1 cm, the unit of FQuantizedDestructionInput);      *)
(* un-quantized FCellDestructionShape fields are in 0.01 cm.  Time is in    *)
(* units of 1/120 s, so that BatchInterval (1/60 s) is 2.                   *)
(***************************************************************************)
EXTENDS Integers, Sequences, FiniteSets, TLC

VARIABLES
    \* ---- FDestructionBatchProcessor and its context ----
    Cache,                \* the FGridCellCache the caller owns (immutable once built)
    DestroyedCells,       \* FCellState::DestroyedCells of the caller's cell state
    PendingDestructions,  \* TArray<FQuantizedDestructionInput>
    AccumulatedTime,      \* float AccumulatedTime
    LastBatchResult,      \* FBatchedDestructionEvent
    CachePtr,             \* const FGridCellCache* (NULL or "cache")
    CellStatePtr,         \* FCellState*           (NULL or "state")
    DebrisIdCounter,      \* int32 DebrisIdCounter
    call,                 \* the last call made on the processor and what it did
    waited,               \* tick time accumulated since the queue last became non-empty
    dropped,              \* TRUE once a batch has been dropped for missing context
    \* ---- one call of FindDisconnectedCells then GroupDetachedCells ----
    gCache,               \* argument Cache
    gDestroyed,           \* argument DestroyedCells
    gDisconnected,        \* result of FindDisconnectedCells (TSet, insertion order)
    gGroups,              \* result of GroupDetachedCells
    gPc,                  \* "input", "found", "grouped"
    \* ---- the same impacts through two processors: one batch / one at a time ----
    eqCache,              \* the grid both processors work on
    eqInputs,             \* the impacts, in order
    eqBatch,              \* DestroyedCells of the cell state processed as one batch
    eqSeq,                \* DestroyedCells of the cell state flushed impact by impact
    eqIdx,                \* next impact of the one-at-a-time run
    eqPc,                 \* "start", "seq", "done"
    eqInit,               \* DestroyedCells of both cell states before the first impact
    \* ---- FStructuralIntegritySystem ----
    bInitialized,
    CellNeighbors,        \* TArray<TArray<int32>>, cell c at index c + 1
    CellPositions,        \* TArray<FVector>
    CellTriangles,        \* TArray<TArray<int32>>
    Settings,             \* FStructuralIntegritySettings
    CellStates,           \* Data.CellStates
    AnchorCellIds,        \* Data.AnchorCellIds
    DestroyedCellIds,     \* Data.DestroyedCellIds
    ConnectedToAnchorCache, \* Data.ConnectedToAnchorCache
    bCacheValid,          \* Data.bCacheValid
    NextGroupId,
    sisCall,              \* the last call made on the system and what it returned
    \* ---- concurrent callers of FStructuralIntegritySystem ----
    DataLock,             \* FRWLock DataLock: the writer (0 if none) and the readers
    thPc,                 \* per caller: "idle", "lock", "run", "update", "unlock"
    thOp,                 \* per caller: the public operation it is in, with arguments
    thLocks,              \* per caller: locks taken since its current call began
    \* ---- one call of CalculateDestroyedCells ----
    cdCache,              \* argument Cache
    cdShape,              \* argument Shape
    cdDestroyed,          \* argument DestroyedCells (passed by const reference)
    cdResult,             \* the returned NewlyDestroyed array
    cdPc,                 \* "input", "done"
    \* ---- one call of FindDisconnectedCellsWithSubCells (current and older code) ----
    scCache,              \* argument Cache
    scDestroyed,          \* CellState.DestroyedCells
    scDead,               \* CellState.SubCellStates: the dead sub-cells of every cell
    scAffected,           \* argument AffectedCells
    scResult,             \* the returned Disconnected set (TSet, insertion order)
    scFull,               \* the set returned by the older sub-cell-by-sub-cell search
    scPc,                 \* "input", "sub", "full"
    \* ---- one shape through FromDestructionShape / ToDestructionShape ----
    qShape,               \* the FCellDestructionShape quantized
    qQuant,               \* FromDestructionShape(qShape)
    qBack,                \* qQuant.ToDestructionShape()
    qAgain,               \* FromDestructionShape(qBack)
    qPc,                  \* "input", "quantized", "back", "again"
    \* ---- one quantized input asked ContainsPoint and IntersectsOBB ----
    pInput,               \* the FQuantizedDestructionInput
    pPoint,               \* argument Point of ContainsPoint
    pBox,                 \* argument OBB of IntersectsOBB
    pContains,            \* what ContainsPoint returned
    pIntersects,          \* what IntersectsOBB returned
    pPc,                  \* "input", "contains", "done"
    \* ---- the cell IDs of one batch written into FBatchedDestructionEvent ----
    evNewly,              \* NewlyDestroyed: int32 cell IDs
    evGroup,              \* one detached group: int32 cell IDs
    evEvent,              \* the event phase 5 builds from them
    evPc,                 \* "input", "done"
    \* ---- UBulletClusterComponent and the timer manager of its world ----
    ClusterCountThreshold,
    PendingRequests,      \* TArray<FPendingClusteringRequest>
    bTimerActive,
    ClusterTimer,         \* time left on ClusterTimerHandle, 0 when the handle is not set
    bcWorld,              \* GetWorld() is not null
    OwnerMesh,            \* OwnerMesh.Get() is a valid component
    bcCall,               \* the last call on the component and what it did
    \* ---- two (cell, sub-cell) pairs through MakeKey ----
    kFirst,
    kSecond,
    kKeys,                \* <<MakeKey of kFirst, MakeKey of kSecond>>
    kPc                   \* "input", "done"

bpVars == <<Cache, DestroyedCells, PendingDestructions, AccumulatedTime,
            LastBatchResult, CachePtr, CellStatePtr, DebrisIdCounter,
            call, waited, dropped>>

gVars == <<gCache, gDestroyed, gDisconnected, gGroups, gPc>>

eqVars == <<eqCache, eqInputs, eqBatch, eqSeq, eqIdx, eqPc, eqInit>>

sisVars == <<bInitialized, CellNeighbors, CellPositions, CellTriangles, Settings,
             CellStates, AnchorCellIds, DestroyedCellIds, ConnectedToAnchorCache,
             bCacheValid, NextGroupId, sisCall>>

lkVars == <<DataLock, thPc, thOp, thLocks>>

cdVars == <<cdCache, cdShape, cdDestroyed, cdResult, cdPc>>

scVars == <<scCache, scDestroyed, scDead, scAffected, scResult, scFull, scPc>>

qVars == <<qShape, qQuant, qBack, qAgain, qPc>>

pVars == <<pInput, pPoint, pBox, pContains, pIntersects, pPc>>

evVars == <<evNewly, evGroup, evEvent, evPc>>

bcVars == <<ClusterCountThreshold, PendingRequests, bTimerActive, ClusterTimer, bcWorld,
            OwnerMesh, bcCall>>

kVars == <<kFirst, kSecond, kKeys, kPc>>

\* what no operation of the structural integrity system touches
sisFrame == <<bpVars, gVars, eqVars, cdVars, scVars, qVars, pVars, evVars, bcVars, kVars>>

vars == <<bpVars, gVars, eqVars, sisVars, lkVars, cdVars, scVars, qVars, pVars,
          evVars, bcVars, kVars>>

NULL == "null"

(***************************************************************************)
(* Bounds of the model                                                     *)
(***************************************************************************)
MaxQueue == 2          \* pending impacts kept in the queue at once
MaxTime == 3           \* cap on AccumulatedTime (units of 1/120 s)
MaxDt == 2             \* largest DeltaTime passed to Tick

(***************************************************************************)
(* Generic helpers                                                         *)
(***************************************************************************)
Range(s) == {s[i] : i \in 1..Len(s)}

\* for (int32 CellId = 0; CellId < N; CellId++)
Upto(n) == [i \in 1..n |-> i - 1]

\* TSet<int32>::Add on a set kept in insertion order
AddUnique(s, e) == IF e \in Range(s) THEN s ELSE Append(s, e)

RECURSIVE AddAllUnique(_, _)
AddAllUnique(s, t) ==
    IF t = <<>> THEN s ELSE AddAllUnique(AddUnique(s, Head(t)), Tail(t))

Reverse(s) == [i \in 1..Len(s) |-> s[Len(s) + 1 - i]]

RECURSIVE Flatten(_)
Flatten(ss) == IF ss = <<>> THEN <<>> ELSE Head(ss) \o Flatten(Tail(ss))

\* FMath::RoundToInt(v / d): round to nearest, halves up (floor(x + 0.5))
RoundDiv(v, d) == (2 * v + d) \div (2 * d)

\* (int16) cast of an int32
\* a plausible slip: the cast keeps the low 16 bits unsigned
ToInt16_Unsigned(v) == v % 65536

ToInt16(v) == ((v + 32768) % 65536) - 32768

(***************************************************************************)
(* FGridCellCache                                                          *)
(***************************************************************************)
GridSize == <<3, 2, 1>>
CellSize == <<100, 100, 100>>
GridOrigin == <<0, 0, 0>>

GetTotalCellCount == GridSize[1] * GridSize[2] * GridSize[3]
CellIds == 0..(GetTotalCellCount - 1)

IsValidCellId(id) == id >= 0 /\ id < GetTotalCellCount

CoordToId(x, y, z) == x + y * GridSize[1] + z * GridSize[1] * GridSize[2]

IdToCoord(id) ==
    << id % GridSize[1],
       (id \div GridSize[1]) % GridSize[2],
       id \div (GridSize[1] * GridSize[2]) >>

GetCellExists(cache, id) == id \in cache.Exists
GetCellIsAnchor(cache, id) == id \in cache.Anchor

\* axis-aligned neighbour offsets, in the order the neighbour list stores them
NeighborOffsets == << <<-1, 0, 0>>, <<1, 0, 0>>, <<0, -1, 0>>,
                      <<0, 1, 0>>, <<0, 0, -1>>, <<0, 0, 1>> >>

InGrid(c) == /\ c[1] >= 0 /\ c[1] < GridSize[1]
             /\ c[2] >= 0 /\ c[2] < GridSize[2]
             /\ c[3] >= 0 /\ c[3] < GridSize[3]

\* neighbour list of a cell: existing axis-aligned neighbours (up to 6);
\* a cell without a sparse entry has none
GetCellNeighbors(cache, id) ==
    IF ~GetCellExists(cache, id) THEN <<>>
    ELSE LET c == IdToCoord(id)
             cand == [k \in 1..6 |-> << c[1] + NeighborOffsets[k][1],
                                        c[2] + NeighborOffsets[k][2],
                                        c[3] + NeighborOffsets[k][3] >>]
             ok(k) == InGrid(cand[k])
                      /\ GetCellExists(cache, CoordToId(cand[k][1], cand[k][2], cand[k][3]))
             ks == SelectSeq([k \in 1..6 |-> k], ok)
         IN [i \in 1..Len(ks) |-> CoordToId(cand[ks[i]][1], cand[ks[i]][2], cand[ks[i]][3])]

IdToLocalMin(id) ==
    IF ~IsValidCellId(id) THEN <<0, 0, 0>>
    ELSE LET c == IdToCoord(id)
         IN << GridOrigin[1] + c[1] * CellSize[1],
               GridOrigin[2] + c[2] * CellSize[2],
               GridOrigin[3] + c[3] * CellSize[3] >>

IdToLocalCenter(id) ==
    IF ~IsValidCellId(id) THEN <<0, 0, 0>>
    ELSE LET c == IdToCoord(id)
         IN << GridOrigin[1] + ((2 * c[1] + 1) * CellSize[1]) \div 2,
               GridOrigin[2] + ((2 * c[2] + 1) * CellSize[2]) \div 2,
               GridOrigin[3] + ((2 * c[3] + 1) * CellSize[3]) \div 2 >>

\* FTransform::TransformPosition for a translation-only transform
TransformPosition(t, p) == << p[1] + t[1], p[2] + t[2], p[3] + t[3] >>

IdToWorldCenter(id, t) == TransformPosition(t, IdToLocalCenter(id))

\* 8 corners, bit i of the index selects the offset on axis i
GetCellVertices(id) ==
    LET m == IdToLocalMin(id)
    IN [k \in 1..8 |->
         << m[1] + (IF (k - 1) % 2 = 1 THEN CellSize[1] ELSE 0),
            m[2] + (IF ((k - 1) \div 2) % 2 = 1 THEN CellSize[2] ELSE 0),
            m[3] + (IF ((k - 1) \div 4) % 2 = 1 THEN CellSize[3] ELSE 0) >>]

(***************************************************************************)
(* FCellDestructionShape / FQuantizedDestructionInput                      *)
(***************************************************************************)
\* x * 10.0f rounded to the nearest integer, for x given in 0.01 units
\* a plausible slip: the scaled value cut to an integer instead of rounded
Quantize_Truncates(v) == IF v >= 0 THEN v \div 10 ELSE 0 - ((0 - v) \div 10)

Quantize(v) == RoundDiv(v, 10)

QuantizeVec(p) == << Quantize(p[1]), Quantize(p[2]), Quantize(p[3]) >>

\* lengths of a shape are in 0.01 units and its angles in 0.001 degrees, so
\* both x * 10.0f and angle * 100.0f are Quantize
FromDestructionShape(shape) ==
    [ Type                 |-> shape.Type,
      CenterMM             |-> QuantizeVec(shape.Center),
      RadiusMM             |-> Quantize(shape.Radius),
      BoxExtentMM          |-> QuantizeVec(shape.BoxExtent),
      RotationCentidegrees |-> QuantizeVec(shape.Rotation),
      EndPointMM           |-> QuantizeVec(shape.EndPoint),
      LineThicknessMM      |-> Quantize(shape.LineThickness) ]

\* v * 0.1f (v * 0.01f for an angle), in 0.01 units (0.001 degrees)
Unquantize(v) == v * 10

UnquantizeVec(p) == << Unquantize(p[1]), Unquantize(p[2]), Unquantize(p[3]) >>

ToDestructionShape(input) ==
    [ Type          |-> input.Type,
      Center        |-> UnquantizeVec(input.CenterMM),
      Radius        |-> Unquantize(input.RadiusMM),
      BoxExtent     |-> UnquantizeVec(input.BoxExtentMM),
      Rotation      |-> UnquantizeVec(input.RotationCentidegrees),
      EndPoint      |-> UnquantizeVec(input.EndPointMM),
      LineThickness |-> Unquantize(input.LineThicknessMM) ]

Abs(x) == IF x < 0 THEN 0 - x ELSE x

DistSquared(p, q) ==
    (p[1] - q[1]) * (p[1] - q[1]) + (p[2] - q[2]) * (p[2] - q[2])
        + (p[3] - q[3]) * (p[3] - q[3])

Sub(p, q) == << p[1] - q[1], p[2] - q[2], p[3] - q[3] >>

DotProduct(p, q) == p[1] * q[1] + p[2] * q[2] + p[3] * q[3]

\* the Line case of ContainsPoint. With LineLength = sqrt(len2) > 0 and
\* Projection = dot / LineLength: Projection < 0 is dot < 0, Projection >
\* LineLength is dot > len2, and the squared distance to the closest point is
\* |ToPoint|^2 - dot^2 / len2. Coordinates are whole tenths of a unit, so
\* LineLength < KINDA_SMALL_NUMBER is LineLength = 0.
LineContainsPoint(input, point) ==
    LET LineDir == Sub(input.EndPointMM, input.CenterMM)
        len2 == DotProduct(LineDir, LineDir)
        ToPoint == Sub(point, input.CenterMM)
        dot == DotProduct(ToPoint, LineDir)
        t == input.LineThicknessMM
    IN IF len2 = 0 THEN FALSE
       ELSE IF dot < 0 \/ dot > len2 THEN FALSE
       ELSE /\ t >= 0
            /\ DotProduct(ToPoint, ToPoint) * len2 - dot * dot <= t * t * len2

\* FQuantizedDestructionInput::ContainsPoint (sphere, un-rotated box, line)
ContainsPoint(input, point) ==
    CASE input.Type = "Sphere" ->
            DistSquared(point, input.CenterMM) <= input.RadiusMM * input.RadiusMM
      [] input.Type = "Box" ->
            /\ Abs(point[1] - input.CenterMM[1]) <= input.BoxExtentMM[1]
            /\ Abs(point[2] - input.CenterMM[2]) <= input.BoxExtentMM[2]
            /\ Abs(point[3] - input.CenterMM[3]) <= input.BoxExtentMM[3]
      [] input.Type = "Line" -> LineContainsPoint(input, point)
      [] OTHER -> FALSE

\* ---- FQuantizedDestructionInput::IntersectsOBB ----
\* An FSubCellOBB is [Center, HalfExtents] in tenths of a unit with AxisX,
\* AxisY, AxisZ the world axes, so WorldToLocal(p) is p - Center.
WorldToLocal(OBB, p) == Sub(p, OBB.Center)

\* FSubCellOBB::GetClosestPoint for world axes: p clamped to the box
GetClosestPoint(OBB, p) ==
    [i \in 1..3 |->
        LET lo == OBB.Center[i] - OBB.HalfExtents[i]
            hi == OBB.Center[i] + OBB.HalfExtents[i]
        IN IF p[i] < lo THEN lo ELSE IF p[i] > hi THEN hi ELSE p[i]]

\* t1, t2, tMin and tMax of the slab method are exact fractions <<n, d>>, d > 0
Frac(n, d) == IF d < 0 THEN <<0 - n, 0 - d>> ELSE <<n, d>>

FracLeq(a, b) == a[1] * b[2] <= b[1] * a[2]

FracMax(a, b) == IF FracLeq(a, b) THEN b ELSE a

FracMin(a, b) == IF FracLeq(a, b) THEN a ELSE b

\* for (int32 Axis = 0; Axis < 3; ++Axis) of the Line case
RECURSIVE SlabLoop(_, _, _, _, _, _)
SlabLoop(Axis, LocalStart, LocalDir, Extents, tMin, tMax) ==
    IF Axis > 3 THEN TRUE
    ELSE LET Start == LocalStart[Axis]
             Dir == LocalDir[Axis]
             Extent == Extents[Axis]
         IN IF Dir = 0
            THEN IF Start < 0 - Extent \/ Start > Extent
                 THEN FALSE
                 ELSE SlabLoop(Axis + 1, LocalStart, LocalDir, Extents, tMin, tMax)
            ELSE LET a == Frac(0 - Extent - Start, Dir)
                     b == Frac(Extent - Start, Dir)
                     t1 == FracMin(a, b)
                     t2 == FracMax(a, b)
                     nMin == FracMax(tMin, t1)
                     nMax == FracMin(tMax, t2)
                 IN IF ~FracLeq(nMin, nMax)
                    THEN FALSE
                    ELSE SlabLoop(Axis + 1, LocalStart, LocalDir, Extents, nMin, nMax)

\* a plausible slip: a line without length misses every box, as it misses
\* every point in ContainsPoint
LineIntersectsOBB_DegenerateMisses(input, OBB) ==
    LET LineDir == Sub(input.EndPointMM, input.CenterMM)
        t == input.LineThicknessMM
        grown == [i \in 1..3 |-> OBB.HalfExtents[i] + t]
        LocalStart == WorldToLocal(OBB, input.CenterMM)
        LocalEnd == WorldToLocal(OBB, input.EndPointMM)
    IN IF DotProduct(LineDir, LineDir) = 0
       THEN FALSE
       ELSE SlabLoop(1, LocalStart, Sub(LocalEnd, LocalStart), grown, <<0, 1>>, <<1, 1>>)

\* the Line case of IntersectsOBB
LineIntersectsOBB(input, OBB) ==
    LET LineDir == Sub(input.EndPointMM, input.CenterMM)
        t == input.LineThicknessMM
        grown == [i \in 1..3 |-> OBB.HalfExtents[i] + t]
        LocalStart == WorldToLocal(OBB, input.CenterMM)
        LocalEnd == WorldToLocal(OBB, input.EndPointMM)
    IN IF DotProduct(LineDir, LineDir) = 0
       THEN \A i \in 1..3 : Abs(LocalStart[i]) <= grown[i]
       ELSE SlabLoop(1, LocalStart, Sub(LocalEnd, LocalStart), grown, <<0, 1>>, <<1, 1>>)

\* IntersectsOBB (sphere, un-rotated box, line) against a box on the world
\* axes. For two boxes on the same axes the nine cross-product axes have no
\* length and never separate, which leaves the three shared axes.
IntersectsOBB(input, OBB) ==
    CASE input.Type = "Sphere" ->
            DistSquared(GetClosestPoint(OBB, input.CenterMM), input.CenterMM)
                <= input.RadiusMM * input.RadiusMM
      [] input.Type = "Box" ->
            \A i \in 1..3 : Abs(OBB.Center[i] - input.CenterMM[i])
                                <= input.BoxExtentMM[i] + OBB.HalfExtents[i]
      [] input.Type = "Line" -> LineIntersectsOBB(input, OBB)
      [] OTHER -> FALSE

(***************************************************************************)
(* FCellDestructionSystem - cell level                                     *)
(***************************************************************************)
\* Phase 1: centre inside; Phase 2: the vertex counter reaches 4
IsCellDestroyed(cache, CellId, Shape, MeshTransform) ==
    \/ ContainsPoint(Shape, IdToWorldCenter(CellId, MeshTransform))
    \/ LET verts == GetCellVertices(CellId)
           inside == {k \in 1..8 :
                        ContainsPoint(Shape, TransformPosition(MeshTransform, verts[k]))}
       IN Cardinality(inside) >= 4

\* a plausible slip: the loop without the DestroyedCells.Contains test
CalculateDestroyedCells_KeepsDestroyed(cache, Shape, MeshTransform, Destroyed) ==
    LET hit(id) == /\ GetCellExists(cache, id)
                   /\ IsCellDestroyed(cache, id, Shape, MeshTransform)
    IN SelectSeq(Upto(GetTotalCellCount), hit)

\* ascending list of the existing, not yet destroyed cells the shape destroys
CalculateDestroyedCells(cache, Shape, MeshTransform, Destroyed) ==
    LET hit(id) == /\ GetCellExists(cache, id)
                   /\ id \notin Destroyed
                   /\ IsCellDestroyed(cache, id, Shape, MeshTransform)
    IN SelectSeq(Upto(GetTotalCellCount), hit)

\* inner loop of the anchor BFS over one neighbour list
RECURSIVE VisitNeighbors(_, _, _, _)
VisitNeighbors(nbrs, Destroyed, connected, enq) ==
    IF nbrs = <<>> THEN [Connected |-> connected, Enqueued |-> enq]
    ELSE LET n == Head(nbrs)
         IN IF n \notin Destroyed /\ n \notin connected
            THEN VisitNeighbors(Tail(nbrs), Destroyed, connected \cup {n}, Append(enq, n))
            ELSE VisitNeighbors(Tail(nbrs), Destroyed, connected, enq)

\* while (!Queue.IsEmpty()) of FindDisconnectedCells
RECURSIVE AnchorBFS(_, _, _, _)
AnchorBFS(cache, Destroyed, queue, connected) ==
    IF queue = <<>> THEN connected
    ELSE LET step == VisitNeighbors(GetCellNeighbors(cache, Head(queue)),
                                    Destroyed, connected, <<>>)
         IN AnchorBFS(cache, Destroyed, Tail(queue) \o step.Enqueued, step.Connected)

\* the BFS seeds: existing, anchored, not destroyed cells in ascending ID order
LiveAnchors(cache, Destroyed) ==
    LET seed(id) == /\ GetCellExists(cache, id)
                    /\ GetCellIsAnchor(cache, id)
                    /\ id \notin Destroyed
    IN SelectSeq(Upto(GetTotalCellCount), seed)

\* a plausible slip: the BFS walks through destroyed neighbours
FindDisconnectedCells_ThroughDestroyed(cache, Destroyed) ==
    LET seeds == LiveAnchors(cache, Destroyed)
        Connected == AnchorBFS(cache, {}, seeds, Range(seeds))
        cut(id) == /\ GetCellExists(cache, id)
                   /\ id \notin Destroyed
                   /\ id \notin Connected
    IN SelectSeq(Upto(GetTotalCellCount), cut)

\* the returned TSet, in insertion (= ascending ID) order
FindDisconnectedCells(cache, Destroyed) ==
    LET seeds == LiveAnchors(cache, Destroyed)
        Connected == AnchorBFS(cache, Destroyed, seeds, Range(seeds))
        cut(id) == /\ GetCellExists(cache, id)
                   /\ id \notin Destroyed
                   /\ id \notin Connected
    IN SelectSeq(Upto(GetTotalCellCount), cut)

\* inner loop of the group flood fill over one neighbour list
RECURSIVE VisitDetached(_, _, _, _)
VisitDetached(nbrs, Disconnected, visited, enq) ==
    IF nbrs = <<>> THEN [Visited |-> visited, Enqueued |-> enq]
    ELSE LET n == Head(nbrs)
         IN IF n \in Disconnected /\ n \notin visited
            THEN VisitDetached(Tail(nbrs), Disconnected, visited \cup {n}, Append(enq, n))
            ELSE VisitDetached(Tail(nbrs), Disconnected, visited, enq)

\* a plausible slip: a stack in place of the queue (depth first)
RECURSIVE GroupBFS_DepthFirst(_, _, _, _, _)
GroupBFS_DepthFirst(cache, Disconnected, queue, visited, group) ==
    IF queue = <<>> THEN [Visited |-> visited, Group |-> group]
    ELSE LET step == VisitDetached(GetCellNeighbors(cache, Head(queue)),
                                   Disconnected, visited, <<>>)
         IN GroupBFS_DepthFirst(cache, Disconnected, step.Enqueued \o Tail(queue),
                                step.Visited, Append(group, Head(queue)))

\* while (!Queue.IsEmpty()) of GroupDetachedCells; Group is in dequeue order
RECURSIVE GroupBFS(_, _, _, _, _)
GroupBFS(cache, Disconnected, queue, visited, group) ==
    IF queue = <<>> THEN [Visited |-> visited, Group |-> group]
    ELSE LET step == VisitDetached(GetCellNeighbors(cache, Head(queue)),
                                   Disconnected, visited, <<>>)
         IN GroupBFS(cache, Disconnected, Tail(queue) \o step.Enqueued,
                     step.Visited, Append(group, Head(queue)))

\* for (int32 StartCell : DisconnectedCells)
RECURSIVE GroupLoop(_, _, _, _, _)
GroupLoop(cache, starts, Disconnected, visited, groups) ==
    IF starts = <<>> THEN groups
    ELSE IF Head(starts) \in visited
         THEN GroupLoop(cache, Tail(starts), Disconnected, visited, groups)
         ELSE LET r == GroupBFS(cache, Disconnected, <<Head(starts)>>,
                                visited \cup {Head(starts)}, <<>>)
              IN GroupLoop(cache, Tail(starts), Disconnected, r.Visited,
                           Append(groups, r.Group))

\* a plausible slip: the start cells are taken from the last one down
GroupDetachedCells_Reversed(cache, DisconnectedCells, Destroyed) ==
    GroupLoop(cache, Reverse(DisconnectedCells), Range(DisconnectedCells), {}, <<>>)

\* a plausible slip: every disconnected cell becomes a group of its own
GroupDetachedCells_Singletons(cache, DisconnectedCells, Destroyed) ==
    [i \in 1..Len(DisconnectedCells) |-> <<DisconnectedCells[i]>>]

\* DisconnectedCells is the TSet returned by FindDisconnectedCells, iterated
\* in its insertion order
GroupDetachedCells(cache, DisconnectedCells, Destroyed) ==
    GroupLoop(cache, DisconnectedCells, Range(DisconnectedCells), {}, <<>>)

\* a plausible slip: the cells' minimum corners are averaged, not their centres
CalculateGroupCenter_FromMin(cache, CellIdList, MeshTransform) ==
    IF Len(CellIdList) = 0 THEN [Sum |-> <<0, 0, 0>>, Num |-> 1]
    ELSE LET RECURSIVE SumUp(_)
             SumUp(l) ==
                 IF l = <<>> THEN <<0, 0, 0>>
                 ELSE LET c == TransformPosition(MeshTransform, IdToLocalMin(Head(l)))
                          r == SumUp(Tail(l))
                      IN << c[1] + r[1], c[2] + r[2], c[3] + r[3] >>
         IN [Sum |-> SumUp(CellIdList), Num |-> Len(CellIdList)]

\* arithmetic mean of the world centres, kept exact as sum and count
CalculateGroupCenter(cache, CellIdList, MeshTransform) ==
    IF Len(CellIdList) = 0 THEN [Sum |-> <<0, 0, 0>>, Num |-> 1]
    ELSE LET RECURSIVE SumUp(_)
             SumUp(l) ==
                 IF l = <<>> THEN <<0, 0, 0>>
                 ELSE LET c == IdToWorldCenter(Head(l), MeshTransform)
                          r == SumUp(Tail(l))
                      IN << c[1] + r[1], c[2] + r[2], c[3] + r[3] >>
         IN [Sum |-> SumUp(CellIdList), Num |-> Len(CellIdList)]

(***************************************************************************)
(* FDestructionBatchProcessor                                              *)
(***************************************************************************)
BatchInterval == 2

\* FTransform::Identity, the transform the model's caller passes to SetContext
MeshTransform == <<0, 0, 0>>

EmptyEvent == [DestructionInputs |-> <<>>, DestroyedCellIds |-> <<>>,
               DetachedDebris |-> <<>>]

\* Phase 1: the hit cells of every pending impact, unioned in insertion order;
\* every impact is tested against the destroyed set as it was before the batch
CollectNewlyDestroyed(cache, pending, Destroyed) ==
    AddAllUnique(<<>>,
        Flatten([i \in 1..Len(pending) |->
                    CalculateDestroyedCells(cache, pending[i], MeshTransform, Destroyed)]))

\* a plausible slip: DebrisIdCounter++ in place of ++DebrisIdCounter
MakeDebris_PostIncrement(cache, groups, counter) ==
    [g \in 1..Len(groups) |->
        [ DebrisId        |-> counter + g - 1,
          CellIds         |-> [i \in 1..Len(groups[g]) |-> ToInt16(groups[g][i])],
          InitialLocation |-> CalculateGroupCenter(cache, groups[g], MeshTransform) ]]

\* Phase 5: one debris descriptor per detached group
MakeDebris(cache, groups, counter) ==
    [g \in 1..Len(groups) |->
        [ DebrisId        |-> counter + g,
          CellIds         |-> [i \in 1..Len(groups[g]) |-> ToInt16(groups[g][i])],
          InitialLocation |-> CalculateGroupCenter(cache, groups[g], MeshTransform) ]]

\* what a batch leaves behind when nothing of the processor changes but the queue
Dropped(last, Destroyed, counter, contextSet) ==
    [ Pending |-> <<>>, Last |-> last, Destroyed |-> Destroyed, Counter |-> counter,
      ContextSet |-> contextSet, BfsRuns |-> 0, GroupRuns |-> 0,
      Newly |-> <<>>, BfsInput |-> {}, Disconnected |-> <<>>, Groups |-> <<>> ]

\* a plausible slip: the connectivity pass is run once per pending impact
ProcessBatch_BfsPerImpact(cache, cachePtr, statePtr, pending, last, Destroyed, counter) ==
    IF cachePtr = NULL \/ statePtr = NULL
    THEN Dropped(last, Destroyed, counter, FALSE)
    ELSE LET newly == CollectNewlyDestroyed(cache, pending, Destroyed)
             afterHits == Destroyed \cup Range(newly)
             disc == FindDisconnectedCells(cache, afterHits)
             groups == GroupDetachedCells(cache, disc, afterHits)
         IN [ Pending |-> <<>>,
              Last |-> [ DestructionInputs |-> pending,
                         DestroyedCellIds |->
                            [i \in 1..Len(newly) |-> ToInt16(newly[i])]
                                \o [i \in 1..Len(Flatten(groups)) |->
                                        ToInt16(Flatten(groups)[i])],
                         DetachedDebris |-> MakeDebris(cache, groups, counter) ],
              Destroyed |-> afterHits \cup Range(Flatten(groups)),
              Counter |-> counter + Len(groups),
              ContextSet |-> TRUE, BfsRuns |-> Len(pending), GroupRuns |-> Len(pending),
              Newly |-> newly, BfsInput |-> afterHits,
              Disconnected |-> disc, Groups |-> groups ]

\* a plausible slip: only the first pending impact is evaluated
ProcessBatch_FirstOnly(cache, cachePtr, statePtr, pending, last, Destroyed, counter) ==
    IF cachePtr = NULL \/ statePtr = NULL
    THEN Dropped(last, Destroyed, counter, FALSE)
    ELSE LET newly == CollectNewlyDestroyed(cache, <<Head(pending)>>, Destroyed)
         IN IF newly = <<>>
            THEN [Dropped(last, Destroyed, counter, TRUE) EXCEPT
                    !.Last = [EmptyEvent EXCEPT !.DestructionInputs = pending]]
            ELSE LET afterHits == Destroyed \cup Range(newly)
                     disc == FindDisconnectedCells(cache, afterHits)
                     groups == GroupDetachedCells(cache, disc, afterHits)
                 IN [ Pending |-> <<>>,
                      Last |-> [ DestructionInputs |-> pending,
                                 DestroyedCellIds |->
                                    [i \in 1..Len(newly) |-> ToInt16(newly[i])]
                                        \o [i \in 1..Len(Flatten(groups)) |->
                                                ToInt16(Flatten(groups)[i])],
                                 DetachedDebris |-> MakeDebris(cache, groups, counter) ],
                      Destroyed |-> afterHits \cup Range(Flatten(groups)),
                      Counter |-> counter + Len(groups),
                      ContextSet |-> TRUE, BfsRuns |-> 1, GroupRuns |-> 1,
                      Newly |-> newly, BfsInput |-> afterHits,
                      Disconnected |-> disc, Groups |-> groups ]

\* a plausible slip: a batch dropped for missing context also resets the result
ProcessBatch_DropResets(cache, cachePtr, statePtr, pending, last, Destroyed, counter) ==
    IF cachePtr = NULL \/ statePtr = NULL
    THEN Dropped([EmptyEvent EXCEPT !.DestructionInputs = pending],
                 Destroyed, counter, FALSE)
    ELSE LET newly == CollectNewlyDestroyed(cache, pending, Destroyed)
         IN IF newly = <<>>
            THEN [Dropped(last, Destroyed, counter, TRUE) EXCEPT
                    !.Last = [EmptyEvent EXCEPT !.DestructionInputs = pending]]
            ELSE LET afterHits == Destroyed \cup Range(newly)
                     disc == FindDisconnectedCells(cache, afterHits)
                     groups == GroupDetachedCells(cache, disc, afterHits)
                 IN [ Pending |-> <<>>,
                      Last |-> [ DestructionInputs |-> pending,
                                 DestroyedCellIds |->
                                    [i \in 1..Len(newly) |-> ToInt16(newly[i])]
                                        \o [i \in 1..Len(Flatten(groups)) |->
                                                ToInt16(Flatten(groups)[i])],
                                 DetachedDebris |-> MakeDebris(cache, groups, counter) ],
                      Destroyed |-> afterHits \cup Range(Flatten(groups)),
                      Counter |-> counter + Len(groups),
                      ContextSet |-> TRUE, BfsRuns |-> 1, GroupRuns |-> 1,
                      Newly |-> newly, BfsInput |-> afterHits,
                      Disconnected |-> disc, Groups |-> groups ]

\* a plausible slip: Phase 4 is left out, the detached cells stay undestroyed
ProcessBatch_DebrisStays(cache, cachePtr, statePtr, pending, last, Destroyed, counter) ==
    IF cachePtr = NULL \/ statePtr = NULL
    THEN Dropped(last, Destroyed, counter, FALSE)
    ELSE LET newly == CollectNewlyDestroyed(cache, pending, Destroyed)
         IN IF newly = <<>>
            THEN [Dropped(last, Destroyed, counter, TRUE) EXCEPT
                    !.Last = [EmptyEvent EXCEPT !.DestructionInputs = pending]]
            ELSE LET afterHits == Destroyed \cup Range(newly)
                     disc == FindDisconnectedCells(cache, afterHits)
                     groups == GroupDetachedCells(cache, disc, afterHits)
                 IN [ Pending |-> <<>>,
                      Last |-> [ DestructionInputs |-> pending,
                                 DestroyedCellIds |->
                                    [i \in 1..Len(newly) |-> ToInt16(newly[i])]
                                        \o [i \in 1..Len(Flatten(groups)) |->
                                                ToInt16(Flatten(groups)[i])],
                                 DetachedDebris |-> MakeDebris(cache, groups, counter) ],
                      Destroyed |-> afterHits,
                      Counter |-> counter + Len(groups),
                      ContextSet |-> TRUE, BfsRuns |-> 1, GroupRuns |-> 1,
                      Newly |-> newly, BfsInput |-> afterHits,
                      Disconnected |-> disc, Groups |-> groups ]

\* a plausible slip: the result of the batch before is not cleared first
ProcessBatch_KeepsLast(cache, cachePtr, statePtr, pending, last, Destroyed, counter) ==
    IF cachePtr = NULL \/ statePtr = NULL
    THEN Dropped(last, Destroyed, counter, FALSE)
    ELSE LET newly == CollectNewlyDestroyed(cache, pending, Destroyed)
         IN IF newly = <<>>
            THEN [Dropped(last, Destroyed, counter, TRUE) EXCEPT
                    !.Last = [last EXCEPT !.DestructionInputs = pending]]
            ELSE LET afterHits == Destroyed \cup Range(newly)
                     disc == FindDisconnectedCells(cache, afterHits)
                     groups == GroupDetachedCells(cache, disc, afterHits)
                 IN [ Pending |-> <<>>,
                      Last |-> [ DestructionInputs |-> pending,
                                 DestroyedCellIds |->
                                    [i \in 1..Len(newly) |-> ToInt16(newly[i])]
                                        \o [i \in 1..Len(Flatten(groups)) |->
                                                ToInt16(Flatten(groups)[i])],
                                 DetachedDebris |-> last.DetachedDebris
                                        \o MakeDebris(cache, groups, counter) ],
                      Destroyed |-> afterHits \cup Range(Flatten(groups)),
                      Counter |-> counter + Len(groups),
                      ContextSet |-> TRUE, BfsRuns |-> 1, GroupRuns |-> 1,
                      Newly |-> newly, BfsInput |-> afterHits,
                      Disconnected |-> disc, Groups |-> groups ]

\* a plausible slip: a batch that hits nothing resets the result and does not
\* store its inputs
ProcessBatch_NoHitNoInputs(cache, cachePtr, statePtr, pending, last, Destroyed, counter) ==
    IF cachePtr = NULL \/ statePtr = NULL
    THEN Dropped(last, Destroyed, counter, FALSE)
    ELSE LET newly == CollectNewlyDestroyed(cache, pending, Destroyed)
         IN IF newly = <<>>
            THEN [Dropped(last, Destroyed, counter, TRUE) EXCEPT
                    !.Last = EmptyEvent]
            ELSE LET afterHits == Destroyed \cup Range(newly)
                     disc == FindDisconnectedCells(cache, afterHits)
                     groups == GroupDetachedCells(cache, disc, afterHits)
                 IN [ Pending |-> <<>>,
                      Last |-> [ DestructionInputs |-> pending,
                                 DestroyedCellIds |->
                                    [i \in 1..Len(newly) |-> ToInt16(newly[i])]
                                        \o [i \in 1..Len(Flatten(groups)) |->
                                                ToInt16(Flatten(groups)[i])],
                                 DetachedDebris |-> MakeDebris(cache, groups, counter) ],
                      Destroyed |-> afterHits \cup Range(Flatten(groups)),
                      Counter |-> counter + Len(groups),
                      ContextSet |-> TRUE, BfsRuns |-> 1, GroupRuns |-> 1,
                      Newly |-> newly, BfsInput |-> afterHits,
                      Disconnected |-> disc, Groups |-> groups ]

\* The whole of ProcessBatch.  The result gives the fields the batch leaves
\* behind (Pending, Last, Destroyed, Counter) and what the batch did:
\* whether the context was set, how often FindDisconnectedCells and
\* GroupDetachedCells were called, and their arguments and results.
ProcessBatch(cache, cachePtr, statePtr, pending, last, Destroyed, counter) ==
    IF cachePtr = NULL \/ statePtr = NULL
    THEN Dropped(last, Destroyed, counter, FALSE)
    ELSE LET newly == CollectNewlyDestroyed(cache, pending, Destroyed)
         IN IF newly = <<>>
            THEN [Dropped(last, Destroyed, counter, TRUE) EXCEPT
                    !.Last = [EmptyEvent EXCEPT !.DestructionInputs = pending]]
            ELSE LET afterHits == Destroyed \cup Range(newly)
                     disc == FindDisconnectedCells(cache, afterHits)
                     groups == GroupDetachedCells(cache, disc, afterHits)
                 IN [ Pending |-> <<>>,
                      Last |-> [ DestructionInputs |-> pending,
                                 DestroyedCellIds |->
                                    [i \in 1..Len(newly) |-> ToInt16(newly[i])]
                                        \o [i \in 1..Len(Flatten(groups)) |->
                                                ToInt16(Flatten(groups)[i])],
                                 DetachedDebris |-> MakeDebris(cache, groups, counter) ],
                      Destroyed |-> afterHits \cup Range(Flatten(groups)),
                      Counter |-> counter + Len(groups),
                      ContextSet |-> TRUE, BfsRuns |-> 1, GroupRuns |-> 1,
                      Newly |-> newly, BfsInput |-> afterHits,
                      Disconnected |-> disc, Groups |-> groups ]

\* ProcessBatch on the processor's current fields
RunBatch == ProcessBatch(Cache, CachePtr, CellStatePtr, PendingDestructions,
                         LastBatchResult, DestroyedCells, DebrisIdCounter)

NoBatch == [ ContextSet |-> FALSE, BfsRuns |-> 0, GroupRuns |-> 0, Newly |-> <<>>,
             BfsInput |-> {}, Disconnected |-> <<>>, Groups |-> <<>> ]

\* the fields of a ProcessBatch result that describe what it did
Did(r) == [ ContextSet |-> r.ContextSet, BfsRuns |-> r.BfsRuns,
            GroupRuns |-> r.GroupRuns, Newly |-> r.Newly, BfsInput |-> r.BfsInput,
            Disconnected |-> r.Disconnected, Groups |-> r.Groups ]

\* the un-quantized shapes the caller queues (0.01 cm)
ShapeSet ==
    { [Type |-> "Sphere", Center |-> <<1504, 496, 500>>, Radius |-> 300,
       BoxExtent |-> <<0, 0, 0>>,
       Rotation |-> <<0, 0, 0>>, EndPoint |-> <<0, 0, 0>>,
       LineThickness |-> 0],
      [Type |-> "Box", Center |-> <<1500, 1000, 500>>, Radius |-> 0,
       BoxExtent |-> <<400, 900, 400>>,
       Rotation |-> <<0, 0, 0>>, EndPoint |-> <<0, 0, 0>>,
       LineThickness |-> 0] }

\* the grids the processor is run on
BatchCaches ==
    { [Exists |-> {0, 1, 2, 3, 4, 5}, Anchor |-> {0}],
      [Exists |-> {0, 1, 2, 4}, Anchor |-> {}],
      [Exists |-> {0, 1, 2, 3, 4}, Anchor |-> {3}],
      [Exists |-> {0, 1, 2, 3, 4}, Anchor |-> {4}] }

\* the other parts of the model, at rest
EmptyCache == [Exists |-> {}, Anchor |-> {}]

IdleGraph ==
    /\ gCache = EmptyCache
    /\ gDestroyed = {}
    /\ gDisconnected = <<>>
    /\ gGroups = <<>>
    /\ gPc = "idle"

IdleEquiv ==
    /\ eqCache = EmptyCache
    /\ eqInputs = <<>>
    /\ eqBatch = {}
    /\ eqSeq = {}
    /\ eqIdx = 0
    /\ eqPc = "idle"
    /\ eqInit = {}

\* FStructuralIntegritySystem as constructed
IdleSis ==
    /\ bInitialized = FALSE
    /\ CellNeighbors = <<>>
    /\ CellPositions = <<>>
    /\ CellTriangles = <<>>
    /\ Settings = [bAutoDetectFloorAnchors |-> FALSE, FloorHeightThreshold |-> 0]
    /\ CellStates = <<>>
    /\ AnchorCellIds = {}
    /\ DestroyedCellIds = {}
    /\ ConnectedToAnchorCache = {}
    /\ bCacheValid = FALSE
    /\ NextGroupId = 0
    /\ sisCall = [op |-> "Construct", id |-> 0, ret |-> FALSE]

\* the concurrent callers of the structural integrity system
Threads == {1, 2}

NoOp == [op |-> "None", arg |-> 0, b |-> FALSE, newly |-> <<>>]

IdleLock ==
    /\ DataLock = [writer |-> 0, readers |-> {}]
    /\ thPc = [t \in Threads |-> "idle"]
    /\ thOp = [t \in Threads |-> NoOp]
    /\ thLocks = [t \in Threads |-> 0]

IdleCalc ==
    /\ cdCache = EmptyCache
    /\ cdShape = FromDestructionShape([Type |-> "None", Center |-> <<0, 0, 0>>,
                                        Radius |-> 0, BoxExtent |-> <<0, 0, 0>>,
                                                      Rotation |-> <<0, 0, 0>>, EndPoint |-> <<0, 0, 0>>,
                                                      LineThickness |-> 0])
    /\ cdDestroyed = {}
    /\ cdResult = <<>>
    /\ cdPc = "idle"

\* no sub-cell search in use: every cell without a sub-cell entry
IdleSub ==
    /\ scCache = EmptyCache
    /\ scDestroyed = {}
    /\ scDead = [c \in CellIds |-> {}]
    /\ scAffected = <<>>
    /\ scResult = <<>>
    /\ scFull = <<>>
    /\ scPc = "idle"

IdleQuant ==
    /\ qShape = <<>>
    /\ qQuant = <<>>
    /\ qBack = <<>>
    /\ qAgain = <<>>
    /\ qPc = "idle"

IdleEvent ==
    /\ evNewly = <<>>
    /\ evGroup = <<>>
    /\ evEvent = <<>>
    /\ evPc = "idle"

IdleCluster ==
    /\ ClusterCountThreshold = 0
    /\ PendingRequests = <<>>
    /\ bTimerActive = FALSE
    /\ ClusterTimer = 0
    /\ bcWorld = FALSE
    /\ OwnerMesh = FALSE
    /\ bcCall = [op |-> "idle", n |-> 0, threshold |-> 0, started |-> FALSE, executed |-> <<>>]

IdleKey ==
    /\ kFirst = <<>>
    /\ kSecond = <<>>
    /\ kKeys = <<>>
    /\ kPc = "idle"

IdleProbe ==
    /\ pInput = <<>>
    /\ pPoint = <<>>
    /\ pBox = <<>>
    /\ pContains = FALSE
    /\ pIntersects = FALSE
    /\ pPc = "idle"

IdleBatch ==
    /\ Cache = EmptyCache
    /\ DestroyedCells = {}
    /\ PendingDestructions = <<>>
    /\ AccumulatedTime = 0
    /\ LastBatchResult = EmptyEvent
    /\ CachePtr = NULL
    /\ CellStatePtr = NULL
    /\ DebrisIdCounter = 0
    /\ call = [op |-> "Init", ret |-> FALSE, dt |-> 0, batches |-> 0, did |-> NoBatch]
    /\ waited = 0
    /\ dropped = FALSE

InitBatch ==
    /\ IdleEvent
    /\ IdleCluster
    /\ IdleKey
    /\ IdleLock
    /\ IdleCalc
    /\ IdleSub
    /\ IdleQuant
    /\ IdleProbe
    /\ IdleGraph
    /\ IdleEquiv
    /\ IdleSis
    /\ Cache \in BatchCaches
    /\ DestroyedCells = {}
    /\ PendingDestructions = <<>>
    /\ AccumulatedTime = 0
    /\ LastBatchResult = EmptyEvent
    /\ CachePtr = NULL
    /\ CellStatePtr = NULL
    /\ DebrisIdCounter = 0
    /\ call = [op |-> "Init", ret |-> FALSE, dt |-> 0, batches |-> 0, did |-> NoBatch]
    /\ waited = 0
    /\ dropped = FALSE

QueueDestruction(Shape) ==
    /\ Len(PendingDestructions) < MaxQueue
    /\ PendingDestructions' = Append(PendingDestructions, FromDestructionShape(Shape))
    /\ waited' = IF PendingDestructions = <<>> THEN 0 ELSE waited
    /\ call' = [op |-> "QueueDestruction", ret |-> FALSE, dt |-> 0, batches |-> 0, did |-> NoBatch]
    /\ UNCHANGED <<gVars, eqVars, sisVars, lkVars, cdVars, scVars, qVars, pVars,
                 evVars, bcVars, kVars>>
    /\ UNCHANGED <<Cache, DestroyedCells, AccumulatedTime, LastBatchResult,
                   CachePtr, CellStatePtr, DebrisIdCounter, dropped>>

\* a plausible slip: the timer must exceed the interval (> for >=)
Tick_Strict(DeltaTime) ==
    /\ AccumulatedTime + DeltaTime <= MaxTime
    /\ waited' = IF PendingDestructions = <<>> THEN waited ELSE waited + DeltaTime
    /\ IF AccumulatedTime + DeltaTime > BatchInterval /\ Len(PendingDestructions) > 0
       THEN \E r \in {RunBatch} :
               /\ AccumulatedTime' = 0
               /\ PendingDestructions' = r.Pending
               /\ LastBatchResult' = r.Last
               /\ DestroyedCells' = r.Destroyed
               /\ DebrisIdCounter' = r.Counter
               /\ dropped' = (dropped \/ ~r.ContextSet)
               /\ call' = [op |-> "Tick", ret |-> TRUE, dt |-> DeltaTime, batches |-> 1, did |-> Did(r)]
       ELSE /\ AccumulatedTime' = AccumulatedTime + DeltaTime
            /\ call' = [op |-> "Tick", ret |-> FALSE, dt |-> DeltaTime, batches |-> 0, did |-> NoBatch]
            /\ UNCHANGED <<PendingDestructions, LastBatchResult, DestroyedCells,
                           DebrisIdCounter, dropped>>
    /\ UNCHANGED <<gVars, eqVars, sisVars, lkVars, cdVars, scVars, qVars, pVars,
                 evVars, bcVars, kVars>>
    /\ UNCHANGED <<Cache, CachePtr, CellStatePtr>>

Tick(DeltaTime) ==
    /\ AccumulatedTime + DeltaTime <= MaxTime
    /\ waited' = IF PendingDestructions = <<>> THEN waited ELSE waited + DeltaTime
    /\ IF AccumulatedTime + DeltaTime >= BatchInterval /\ Len(PendingDestructions) > 0
       THEN \E r \in {RunBatch} :
               /\ AccumulatedTime' = 0
               /\ PendingDestructions' = r.Pending
               /\ LastBatchResult' = r.Last
               /\ DestroyedCells' = r.Destroyed
               /\ DebrisIdCounter' = r.Counter
               /\ dropped' = (dropped \/ ~r.ContextSet)
               /\ call' = [op |-> "Tick", ret |-> TRUE, dt |-> DeltaTime, batches |-> 1, did |-> Did(r)]
       ELSE /\ AccumulatedTime' = AccumulatedTime + DeltaTime
            /\ call' = [op |-> "Tick", ret |-> FALSE, dt |-> DeltaTime, batches |-> 0, did |-> NoBatch]
            /\ UNCHANGED <<PendingDestructions, LastBatchResult, DestroyedCells,
                           DebrisIdCounter, dropped>>
    /\ UNCHANGED <<gVars, eqVars, sisVars, lkVars, cdVars, scVars, qVars, pVars,
                 evVars, bcVars, kVars>>
    /\ UNCHANGED <<Cache, CachePtr, CellStatePtr>>

\* a plausible slip: the flush forgets to reset the timer
FlushQueue_KeepsTime ==
    /\ IF Len(PendingDestructions) > 0
       THEN \E r \in {RunBatch} :
               /\ AccumulatedTime' = AccumulatedTime
               /\ PendingDestructions' = r.Pending
               /\ LastBatchResult' = r.Last
               /\ DestroyedCells' = r.Destroyed
               /\ DebrisIdCounter' = r.Counter
               /\ dropped' = (dropped \/ ~r.ContextSet)
               /\ call' = [op |-> "FlushQueue", ret |-> FALSE, dt |-> 0, batches |-> 1, did |-> Did(r)]
       ELSE /\ call' = [op |-> "FlushQueue", ret |-> FALSE, dt |-> 0, batches |-> 0, did |-> NoBatch]
            /\ UNCHANGED <<AccumulatedTime, PendingDestructions, LastBatchResult,
                           DestroyedCells, DebrisIdCounter, dropped>>
    /\ UNCHANGED <<gVars, eqVars, sisVars, lkVars, cdVars, scVars, qVars, pVars,
                 evVars, bcVars, kVars>>
    /\ UNCHANGED <<Cache, CachePtr, CellStatePtr, waited>>

FlushQueue ==
    /\ IF Len(PendingDestructions) > 0
       THEN \E r \in {RunBatch} :
               /\ AccumulatedTime' = 0
               /\ PendingDestructions' = r.Pending
               /\ LastBatchResult' = r.Last
               /\ DestroyedCells' = r.Destroyed
               /\ DebrisIdCounter' = r.Counter
               /\ dropped' = (dropped \/ ~r.ContextSet)
               /\ call' = [op |-> "FlushQueue", ret |-> FALSE, dt |-> 0, batches |-> 1, did |-> Did(r)]
       ELSE /\ call' = [op |-> "FlushQueue", ret |-> FALSE, dt |-> 0, batches |-> 0, did |-> NoBatch]
            /\ UNCHANGED <<AccumulatedTime, PendingDestructions, LastBatchResult,
                           DestroyedCells, DebrisIdCounter, dropped>>
    /\ UNCHANGED <<gVars, eqVars, sisVars, lkVars, cdVars, scVars, qVars, pVars,
                 evVars, bcVars, kVars>>
    /\ UNCHANGED <<Cache, CachePtr, CellStatePtr, waited>>

SetContext(InCache, InCellState) ==
    /\ CachePtr' = InCache
    /\ CellStatePtr' = InCellState
    /\ call' = [op |-> "SetContext", ret |-> FALSE, dt |-> 0, batches |-> 0, did |-> NoBatch]
    /\ UNCHANGED <<gVars, eqVars, sisVars, lkVars, cdVars, scVars, qVars, pVars,
                 evVars, bcVars, kVars>>
    /\ UNCHANGED <<Cache, DestroyedCells, PendingDestructions, AccumulatedTime,
                   LastBatchResult, DebrisIdCounter, waited, dropped>>

\* the pointer pairs the caller passes to SetContext
ContextSet == { <<"cache", "state">>, <<"cache", NULL>> }

Init == InitBatch

Next ==
    \/ \E shape \in ShapeSet : QueueDestruction(shape)
    \/ \E dt \in 1..MaxDt : Tick(dt)
    \/ FlushQueue
    \/ \E ctx \in ContextSet : SetContext(ctx[1], ctx[2])

Spec == Init /\ [][Next]_vars

(***************************************************************************)
(* Properties of the batch processor (specification Spec)                  *)
(***************************************************************************)
\* the last call ran ProcessBatch with the context set
BatchRan == call.batches = 1 /\ call.did.ContextSet

C5_TickContract ==
    [][ call'.op = "Tick" =>
          IF AccumulatedTime + call'.dt >= BatchInterval /\ Len(PendingDestructions) > 0
          THEN /\ call'.batches = 1
               /\ call'.ret = TRUE
               /\ AccumulatedTime' = 0
               /\ PendingDestructions' = <<>>
          ELSE /\ call'.batches = 0
               /\ call'.ret = FALSE
               /\ AccumulatedTime' = AccumulatedTime + call'.dt
               /\ UNCHANGED <<PendingDestructions, LastBatchResult, DestroyedCells>>
      ]_vars

\* a Tick that reached the interval exactly and processed a destroying batch
C5_Witness ==
    /\ call.op = "Tick" /\ call.ret = TRUE /\ call.batches = 1
    /\ waited = BatchInterval
    /\ call.did.Newly # <<>>

\* C6, as stated: an impact queued on an idle processor is not processed by
\* Tick before a full BatchInterval of tick time has passed since it was queued.
C6_QueueStartsTimer ==
    (call.op = "Tick" /\ call.ret = TRUE) => waited >= BatchInterval

\* C7, as stated: after every FlushQueue the queue is empty and the
\* accumulated time is 0.
C7_FlushAlwaysResets ==
    call.op = "FlushQueue" => (PendingDestructions = <<>> /\ AccumulatedTime = 0)

\* C7, amended: FlushQueue on a non-empty queue runs one ProcessBatch whatever
\* the accumulated time is and resets the time to 0; on an empty queue it
\* leaves the accumulated time as it was; the queue is empty after every call.
C7_FlushContract ==
    [][ call'.op = "FlushQueue" =>
          /\ PendingDestructions' = <<>>
          /\ IF Len(PendingDestructions) > 0
             THEN call'.batches = 1 /\ AccumulatedTime' = 0
             ELSE call'.batches = 0 /\ AccumulatedTime' = AccumulatedTime
      ]_vars

\* a flush that processed a destroying batch before the interval had elapsed
C7_Witness ==
    /\ call.op = "FlushQueue" /\ call.batches = 1
    /\ waited > 0 /\ waited < BatchInterval
    /\ call.did.Newly # <<>>
    /\ AccumulatedTime = 0

\* the existing, not yet destroyed cells some pending impact destroys
PendingHits ==
    {c \in Cache.Exists \ DestroyedCells :
        \E i \in 1..Len(PendingDestructions) :
            IsCellDestroyed(Cache, c, PendingDestructions[i], MeshTransform)}

\* C8: a ProcessBatch without context empties the queue and changes nothing
\* else (cell state, debris counter, last result, pointers); a batch run with
\* the context set after such a drop is processed normally.
C8_MissingContext ==
    [][ /\ (call'.batches = 1 /\ ~call'.did.ContextSet) =>
              /\ PendingDestructions' = <<>>
              /\ UNCHANGED <<DestroyedCells, DebrisIdCounter, LastBatchResult,
                             Cache, CachePtr, CellStatePtr>>
        /\ (dropped /\ call'.batches = 1 /\ call'.did.ContextSet) =>
              /\ PendingDestructions' = <<>>
              /\ LastBatchResult'.DestructionInputs = PendingDestructions
              /\ PendingHits \subseteq DestroyedCells'
              /\ DestroyedCells \subseteq DestroyedCells'
      ]_vars

\* after a dropped batch, a later batch with context destroyed cells
C8_Witness ==
    /\ dropped
    /\ BatchRan
    /\ call.did.Newly # <<>>
    /\ Range(call.did.Newly) \subseteq DestroyedCells

(***************************************************************************)
(* FindDisconnectedCells / GroupDetachedCells on every small grid          *)
(* (specification SpecGraph)                                               *)
(***************************************************************************)
\* every grid of GridSize: any set of existing cells, any anchors among them
AllCaches ==
    {[Exists |-> e, Anchor |-> a] : <<e, a>> \in
        {p \in (SUBSET CellIds) \X (SUBSET CellIds) : p[2] \subseteq p[1]}}

InitGraph ==
    /\ IdleEvent
    /\ IdleCluster
    /\ IdleKey
    /\ IdleLock
    /\ IdleCalc
    /\ IdleSub
    /\ IdleQuant
    /\ IdleProbe
    /\ IdleBatch
    /\ IdleEquiv
    /\ IdleSis
    /\ gCache \in AllCaches
    /\ gDestroyed \in SUBSET gCache.Exists
    /\ gDisconnected = <<>>
    /\ gGroups = <<>>
    /\ gPc = "input"

FindStep ==
    /\ gPc = "input"
    /\ gDisconnected' = FindDisconnectedCells(gCache, gDestroyed)
    /\ gPc' = "found"
    /\ UNCHANGED <<gCache, gDestroyed, gGroups>>
    /\ UNCHANGED <<bpVars, eqVars, sisVars, lkVars, cdVars, scVars, qVars, pVars,
                 evVars, bcVars, kVars>>

GroupStep ==
    /\ gPc = "found"
    /\ gGroups' = GroupDetachedCells(gCache, gDisconnected, gDestroyed)
    /\ gPc' = "grouped"
    /\ UNCHANGED <<gCache, gDestroyed, gDisconnected>>
    /\ UNCHANGED <<bpVars, eqVars, sisVars, lkVars, cdVars, scVars, qVars, pVars,
                 evVars, bcVars, kVars>>

\* a plausible slip: the second run walks the disconnected set from its end
RerunStep_FromEnd ==
    /\ gPc = "grouped"
    /\ gDisconnected' = FindDisconnectedCells(gCache, gDestroyed)
    /\ gGroups' = GroupDetachedCells(gCache, Reverse(gDisconnected'), gDestroyed)
    /\ gPc' = "rerun"
    /\ UNCHANGED <<gCache, gDestroyed>>
    /\ UNCHANGED <<bpVars, eqVars, sisVars, lkVars, cdVars, scVars, qVars, pVars,
                 evVars, bcVars, kVars>>

\* the two functions called once more on the same cache and destroyed set
RerunStep ==
    /\ gPc = "grouped"
    /\ gDisconnected' = FindDisconnectedCells(gCache, gDestroyed)
    /\ gGroups' = GroupDetachedCells(gCache, gDisconnected', gDestroyed)
    /\ gPc' = "rerun"
    /\ UNCHANGED <<gCache, gDestroyed>>
    /\ UNCHANGED <<bpVars, eqVars, sisVars, lkVars, cdVars, scVars, qVars, pVars,
                 evVars, bcVars, kVars>>

NextGraph == FindStep \/ GroupStep \/ RerunStep

SpecGraph == InitGraph /\ [][NextGraph]_vars

\* the stored neighbour links: for every cell, the cells in its neighbour list
NeighborSets(cache) == [a \in CellIds |-> Range(GetCellNeighbors(cache, a))]

\* the cells joined to a cell of From by a path of neighbour links that stays
\* inside Allowed: the least set that holds From and is closed under the links
PathClosure(links, From, Allowed) ==
    LET closed(S) == /\ From \subseteq S
                     /\ \A a \in S : (links[a] \cap Allowed) \subseteq S
    IN {c \in CellIds : \A S \in SUBSET CellIds : closed(S) => c \in S}

\* cells with a path from an existing, non-destroyed anchor through
\* non-destroyed cells
AnchorReachable(links, cache, Destroyed) ==
    PathClosure(links, (cache.Exists \cap cache.Anchor) \ Destroyed,
                CellIds \ Destroyed)

\* C3: FindDisconnectedCells returns exactly the existing, non-destroyed cells
\* without a path to an existing non-destroyed anchor through non-destroyed
\* cells (each once); it never returns a destroyed or non-existing cell.
C3_DisconnectedExact ==
    gPc \in {"found", "grouped"} =>
        \A links \in {NeighborSets(gCache)} :
        /\ Range(gDisconnected) =
              (gCache.Exists \ gDestroyed) \ AnchorReachable(links, gCache, gDestroyed)
        /\ Cardinality(Range(gDisconnected)) = Len(gDisconnected)
        /\ Range(gDisconnected) \cap gDestroyed = {}
        /\ Range(gDisconnected) \subseteq gCache.Exists

\* a cell is cut off behind a destroyed cell while another is still anchored
C3_Witness ==
    /\ gPc = "found"
    /\ gDisconnected # <<>>
    /\ gDestroyed # {}
    /\ (gCache.Exists \ gDestroyed) \ Range(gDisconnected) # {}
    /\ \E c \in Range(gDisconnected) :
          NeighborSets(gCache)[c] \cap gDestroyed # {}

\* C4: the groups partition the disconnected set (every disconnected cell in
\* exactly one group, at one position; no other cell in a group) and each
\* group is a maximal connected component: two disconnected cells share a
\* group iff a path of disconnected cells joins them.
C4_GroupsAreComponents ==
    gPc = "grouped" =>
        \A links \in {NeighborSets(gCache)} :
        LET disc == Range(gDisconnected)
            places(c) == {<<g, i>> \in (1..Len(gGroups)) \X (1..GetTotalCellCount) :
                              i <= Len(gGroups[g]) /\ gGroups[g][i] = c}
            together(a, b) == \E g \in 1..Len(gGroups) :
                                  a \in Range(gGroups[g]) /\ b \in Range(gGroups[g])
        IN /\ \A c \in disc : Cardinality(places(c)) = 1
           /\ \A g \in 1..Len(gGroups) :
                 gGroups[g] # <<>> /\ Range(gGroups[g]) \subseteq disc
           /\ \A a \in disc : \A joined \in {PathClosure(links, {a}, disc)} :
                 \A b \in disc : together(a, b) <=> b \in joined

\* two groups, one of them with several cells
C4_Witness ==
    /\ gPc = "grouped"
    /\ Len(gGroups) >= 2
    /\ \E g \in 1..Len(gGroups) : Len(gGroups[g]) >= 3

(***************************************************************************)
(* One batch against one impact at a time (specification SpecEquiv)        *)
(***************************************************************************)
MaxImpacts == 2        \* impacts in the compared sequence
MaxAnchors == 1        \* anchors of the compared grids
MaxInitDestroyed == 1  \* cells destroyed before the first impact

\* the impacts compared: one that hits cell 1, one that hits nothing, one that
\* hits cells 1 and 4, one that hits cell 0
EquivShapes ==
    ShapeSet \cup { [Type |-> "Sphere", Center |-> <<-5000, 500, 500>>, Radius |-> 100,
                     BoxExtent |-> <<0, 0, 0>>,
                     Rotation |-> <<0, 0, 0>>, EndPoint |-> <<0, 0, 0>>,
                     LineThickness |-> 0],
                   [Type |-> "Sphere", Center |-> <<500, 500, 500>>, Radius |-> 300,
                     BoxExtent |-> <<0, 0, 0>>,
                     Rotation |-> <<0, 0, 0>>, EndPoint |-> <<0, 0, 0>>,
                     LineThickness |-> 0] }

\* the grids compared: the full 3x2 sheet, a T and a U cut out of it
EquivGrids == {CellIds, {0, 1, 2, 4}, {0, 1, 2, 3, 5}}

EquivInputs ==
    UNION {[1..n -> {FromDestructionShape(sh) : sh \in EquivShapes}] : n \in 1..MaxImpacts}

\* a processor with its context set, asked to flush the given queue
FlushOn(cache, pending, Destroyed) ==
    IF Len(pending) > 0
    THEN ProcessBatch(cache, "cache", "state", pending, EmptyEvent, Destroyed, 0).Destroyed
    ELSE Destroyed

InitEquiv ==
    /\ IdleEvent
    /\ IdleCluster
    /\ IdleKey
    /\ IdleLock
    /\ IdleCalc
    /\ IdleSub
    /\ IdleQuant
    /\ IdleProbe
    /\ IdleBatch
    /\ IdleGraph
    /\ IdleSis
    /\ eqCache \in {c \in AllCaches : /\ c.Exists \in EquivGrids
                                      /\ Cardinality(c.Anchor) <= MaxAnchors}
    /\ eqInputs \in EquivInputs
    /\ eqBatch \in {d \in SUBSET eqCache.Exists : Cardinality(d) <= MaxInitDestroyed}
    /\ eqSeq = eqBatch
    /\ eqInit = eqBatch
    /\ eqIdx = 1
    /\ eqPc = "start"

\* QueueDestruction of every impact, then one FlushQueue
EquivBatch ==
    /\ eqPc = "start"
    /\ eqBatch' = FlushOn(eqCache, eqInputs, eqBatch)
    /\ eqPc' = "seq"
    /\ UNCHANGED <<eqCache, eqInputs, eqSeq, eqIdx, eqInit>>
    /\ UNCHANGED <<bpVars, gVars, sisVars, lkVars, cdVars, scVars, qVars, pVars,
                 evVars, bcVars, kVars>>

\* QueueDestruction of the next impact, then FlushQueue
EquivOne ==
    /\ eqPc = "seq"
    /\ eqSeq' = FlushOn(eqCache, <<eqInputs[eqIdx]>>, eqSeq)
    /\ eqIdx' = eqIdx + 1
    /\ eqPc' = IF eqIdx = Len(eqInputs) THEN "done" ELSE "seq"
    /\ UNCHANGED <<eqCache, eqInputs, eqBatch, eqInit>>
    /\ UNCHANGED <<bpVars, gVars, sisVars, lkVars, cdVars, scVars, qVars, pVars,
                 evVars, bcVars, kVars>>

NextEquiv == EquivBatch \/ EquivOne

SpecEquiv == InitEquiv /\ [][NextEquiv]_vars

\* C2: N impacts processed as one batch leave the same DestroyedCells as the
\* same impacts queued and flushed one at a time in order.
C2_BatchingEquivalence ==
    eqPc = "done" => eqBatch = eqSeq

\* two impacts; the first detaches a cell (debris) that the second one, alone,
\* would have hit; some cell survives both runs
C2_Witness ==
    /\ eqPc = "done"
    /\ Len(eqInputs) = 2
    /\ eqCache.Exists \ eqBatch # {}
    /\ \E first \in {Range(CalculateDestroyedCells(eqCache, eqInputs[1],
                                                   MeshTransform, eqInit))} :
          /\ first # {}
          /\ \E c \in Range(FindDisconnectedCells(eqCache, eqInit \cup first)) :
                IsCellDestroyed(eqCache, c, eqInputs[2], MeshTransform)

(***************************************************************************)
(* FStructuralIntegritySystem (specification SpecSIS)                      *)
(* Every public operation runs under DataLock and is one step.             *)
(***************************************************************************)
MaxGroupId == 4        \* cap on NextGroupId
MaxIdList == 2         \* length of the ID lists passed to the system

SortAsc(seq) == SortSeq(seq, LAMBDA a, b : a < b)

\* TSet::Array() followed by Sort()
RECURSIVE SortedArray(_)
SortedArray(S) ==
    IF S = {} THEN <<>>
    ELSE LET m == CHOOSE x \in S : \A y \in S : x <= y
         IN <<m>> \o SortedArray(S \ {m})

\* Data.IsValidCellId
DataIsValidCellId(states, id) == id >= 0 /\ id < Len(states)

\* Data.Initialize(CellCount): every cell Intact, the sets empty, the cache
\* empty and not valid
DataInitialize(CellCount) ==
    [ CellStates |-> [i \in 1..CellCount |-> "Intact"],
      AnchorCellIds |-> {}, DestroyedCellIds |-> {},
      ConnectedToAnchorCache |-> {}, bCacheValid |-> FALSE ]

\* Data.Reset(): no cell, the sets empty, the cache empty and not valid
DataReset ==
    [ CellStates |-> <<>>, AnchorCellIds |-> {}, DestroyedCellIds |-> {},
      ConnectedToAnchorCache |-> {}, bCacheValid |-> FALSE ]

\* Data.InvalidateCache(): bCacheValid afterwards; the cached set is not touched
InvalidateCache(valid) == FALSE

\* cells whose Z is within the threshold of the lowest Z
FloorCells(positions, threshold) ==
    {c \in 0..(Len(positions) - 1) :
        \A d \in 0..(Len(positions) - 1) :
            positions[c + 1][3] - positions[d + 1][3] <= threshold}

\* BFS loop of FindAllConnectedToAnchors_Internal
RECURSIVE ConnectedBFS(_, _, _, _)
ConnectedBFS(neighbors, destroyed, queue, connected) ==
    IF queue = <<>> THEN connected
    ELSE LET cur == Head(queue)
             nbrs == IF cur < Len(neighbors) THEN neighbors[cur + 1] ELSE <<>>
             step == VisitNeighbors(nbrs, destroyed, connected, <<>>)
         IN ConnectedBFS(neighbors, destroyed, Tail(queue) \o step.Enqueued,
                         step.Connected)

\* a plausible slip: the search also starts from destroyed anchors
FindAllConnectedToAnchors_Internal_DeadSeeds(neighbors, anchors, destroyed) ==
    IF Len(neighbors) = 0 \/ anchors = {} THEN {}
    ELSE LET seeds == SortedArray(anchors)
         IN ConnectedBFS(neighbors, destroyed, seeds, Range(seeds))

FindAllConnectedToAnchors_Internal(neighbors, anchors, destroyed) ==
    IF Len(neighbors) = 0 \/ anchors = {} THEN {}
    ELSE LET live(a) == a \notin destroyed
             seeds == SelectSeq(SortedArray(anchors), live)
         IN ConnectedBFS(neighbors, destroyed, seeds, Range(seeds))

\* the cells the BFS loop of FindAllConnectedToAnchors_Internal takes from its
\* queue (Queue[QueueIndex++]), in order
RECURSIVE ConnectedBFSDequeued(_, _, _, _, _)
ConnectedBFSDequeued(neighbors, destroyed, queue, connected, done) ==
    IF queue = <<>> THEN done
    ELSE LET cur == Head(queue)
             nbrs == IF cur < Len(neighbors) THEN neighbors[cur + 1] ELSE <<>>
             step == VisitNeighbors(nbrs, destroyed, connected, <<>>)
         IN ConnectedBFSDequeued(neighbors, destroyed, Tail(queue) \o step.Enqueued,
                                 step.Connected, Append(done, cur))

CalculateCenterOfMass(positions, ids) ==
    IF Len(ids) = 0 \/ Len(positions) = 0 THEN [Sum |-> <<0, 0, 0>>, Num |-> 1]
    ELSE LET RECURSIVE SumUp(_)
             SumUp(l) ==
                 IF l = <<>> THEN <<0, 0, 0>>
                 ELSE LET r == SumUp(Tail(l))
                          c == IF Head(l) >= 0 /\ Head(l) < Len(positions)
                               THEN positions[Head(l) + 1] ELSE <<0, 0, 0>>
                      IN << c[1] + r[1], c[2] + r[2], c[3] + r[3] >>
         IN [Sum |-> SumUp(ids), Num |-> Len(ids)]

\* in-place removal of adjacent duplicates (the WriteIndex loop)
RECURSIVE Compact(_, _)
Compact(sorted, out) ==
    IF sorted = <<>> THEN out
    ELSE IF out = <<>> \/ Head(sorted) # out[Len(out)]
         THEN Compact(Tail(sorted), Append(out, Head(sorted)))
         ELSE Compact(Tail(sorted), out)

\* a plausible slip: the appended triangle lists sorted but not compacted
CollectTriangleIds_NoDedup(triangles, ids) ==
    IF Len(triangles) = 0 THEN <<>>
    ELSE LET tris == [i \in 1..Len(ids) |->
                         IF ids[i] >= 0 /\ ids[i] < Len(triangles)
                         THEN triangles[ids[i] + 1] ELSE <<>>]
         IN SortAsc(Flatten(tris))

CollectTriangleIds(triangles, ids) ==
    IF Len(triangles) = 0 THEN <<>>
    ELSE LET tris == [i \in 1..Len(ids) |->
                         IF ids[i] >= 0 /\ ids[i] < Len(triangles)
                         THEN triangles[ids[i] + 1] ELSE <<>>]
         IN Compact(SortAsc(Flatten(tris)), <<>>)

\* while (GroupQueueIndex < GroupQueue.Num()) of BuildDetachedGroups
RECURSIVE DetachedBFS(_, _, _, _, _)
DetachedBFS(neighbors, detached, queue, visited, group) ==
    IF queue = <<>> THEN [Visited |-> visited, Group |-> group]
    ELSE LET cur == Head(queue)
             nbrs == IF cur < Len(neighbors) THEN neighbors[cur + 1] ELSE <<>>
             step == VisitDetached(nbrs, detached, visited, <<>>)
         IN DetachedBFS(neighbors, detached, Tail(queue) \o step.Enqueued,
                        step.Visited, Append(group, cur))

\* for (int32 StartCellId : SortedDetached)
RECURSIVE DetachedLoop(_, _, _, _, _, _, _, _)
DetachedLoop(neighbors, positions, triangles, starts, detached, visited, groups, nextId) ==
    IF starts = <<>> THEN [Groups |-> groups, NextId |-> nextId]
    ELSE IF Head(starts) \in visited
         THEN DetachedLoop(neighbors, positions, triangles, Tail(starts), detached,
                           visited, groups, nextId)
         ELSE LET r == DetachedBFS(neighbors, detached, <<Head(starts)>>,
                                   visited \cup {Head(starts)}, <<>>)
                  ids == SortAsc(r.Group)
                  g == [ GroupId         |-> nextId,
                         CellIds         |-> ids,
                         CenterOfMass    |-> CalculateCenterOfMass(positions, ids),
                         ApproximateMass |-> Len(ids),
                         TriangleIds     |-> CollectTriangleIds(triangles, ids) ]
              IN DetachedLoop(neighbors, positions, triangles, Tail(starts), detached,
                              r.Visited, Append(groups, g), nextId + 1)

BuildDetachedGroups(neighbors, positions, triangles, detachedIds, nextId) ==
    IF Len(detachedIds) = 0 \/ Len(neighbors) = 0
    THEN [Groups |-> <<>>, NextId |-> nextId]
    ELSE DetachedLoop(neighbors, positions, triangles, SortAsc(detachedIds),
                      Range(detachedIds), {}, <<>>, nextId)

\* a plausible slip: a cell already marked Detached is not reported again
UpdateConnectivityAndFindDetached_OnlyNew(neighbors, positions, triangles, anchors, destroyed, states, cache, valid, nextId) ==
    IF Len(neighbors) = 0
    THEN [Cache |-> cache, Valid |-> valid, States |-> states,
          Groups |-> <<>>, NextId |-> nextId]
    ELSE LET connected == FindAllConnectedToAnchors_Internal(neighbors, anchors, destroyed)
             cut(id) == id \notin destroyed /\ id \notin connected
             fresh(id) == cut(id) /\ states[id + 1] # "Detached"
             detachedIds == SelectSeq(Upto(Len(states)), fresh)
             built == BuildDetachedGroups(neighbors, positions, triangles,
                                          detachedIds, nextId)
         IN [ Cache  |-> connected,
              Valid  |-> TRUE,
              States |-> [i \in 1..Len(states) |->
                            IF cut(i - 1) THEN "Detached" ELSE states[i]],
              Groups |-> built.Groups,
              NextId |-> built.NextId ]

\* The Data fields and group counter UpdateConnectivityAndFindDetached leaves
\* behind, and the groups it returns.
UpdateConnectivityAndFindDetached(neighbors, positions, triangles, anchors, destroyed, states, cache, valid, nextId) ==
    IF Len(neighbors) = 0
    THEN [Cache |-> cache, Valid |-> valid, States |-> states,
          Groups |-> <<>>, NextId |-> nextId]
    ELSE LET connected == FindAllConnectedToAnchors_Internal(neighbors, anchors, destroyed)
             cut(id) == id \notin destroyed /\ id \notin connected
             detachedIds == SelectSeq(Upto(Len(states)), cut)
             built == BuildDetachedGroups(neighbors, positions, triangles,
                                          detachedIds, nextId)
         IN [ Cache  |-> connected,
              Valid  |-> TRUE,
              States |-> [i \in 1..Len(states) |->
                            IF cut(i - 1) THEN "Detached" ELSE states[i]],
              Groups |-> built.Groups,
              NextId |-> built.NextId ]

\* a plausible slip: DestroyCellInternal without the Contains test
RECURSIVE DestroyLoop_NoContains(_, _, _, _)
DestroyLoop_NoContains(ids, destroyed, states, newly) ==
    IF ids = <<>> THEN [Destroyed |-> destroyed, States |-> states, Newly |-> newly]
    ELSE LET id == Head(ids)
         IN IF ~DataIsValidCellId(states, id)
            THEN DestroyLoop_NoContains(Tail(ids), destroyed, states, newly)
            ELSE DestroyLoop_NoContains(Tail(ids), destroyed \cup {id},
                                        [states EXCEPT ![id + 1] = "Destroyed"],
                                        Append(newly, id))

\* the loop of DestroyCells over DestroyCellInternal
RECURSIVE DestroyLoop(_, _, _, _)
DestroyLoop(ids, destroyed, states, newly) ==
    IF ids = <<>> THEN [Destroyed |-> destroyed, States |-> states, Newly |-> newly]
    ELSE LET id == Head(ids)
         IN IF ~DataIsValidCellId(states, id) \/ id \in destroyed
            THEN DestroyLoop(Tail(ids), destroyed, states, newly)
            ELSE DestroyLoop(Tail(ids), destroyed \cup {id},
                             [states EXCEPT ![id + 1] = "Destroyed"],
                             Append(newly, id))

\* a plausible slip: the loop of ForceSetDestroyedCells adds an ID it cannot mark
RECURSIVE ForceLoop_Unchecked(_, _, _)
ForceLoop_Unchecked(ids, destroyed, states) ==
    IF ids = <<>> THEN [Destroyed |-> destroyed, States |-> states]
    ELSE LET id == Head(ids)
         IN ForceLoop_Unchecked(Tail(ids), destroyed \cup {id},
                                IF DataIsValidCellId(states, id)
                                THEN [states EXCEPT ![id + 1] = "Destroyed"]
                                ELSE states)

\* a plausible slip: the loop of ForceSetDestroyedCells adds the ID to the set
\* and leaves the cell's state as it was
RECURSIVE ForceLoop_SetOnly(_, _, _)
ForceLoop_SetOnly(ids, destroyed, states) ==
    IF ids = <<>> THEN [Destroyed |-> destroyed, States |-> states]
    ELSE LET id == Head(ids)
         IN IF DataIsValidCellId(states, id)
            THEN ForceLoop_SetOnly(Tail(ids), destroyed \cup {id}, states)
            ELSE ForceLoop_SetOnly(Tail(ids), destroyed, states)

\* the loop of ForceSetDestroyedCells
RECURSIVE ForceLoop(_, _, _)
ForceLoop(ids, destroyed, states) ==
    IF ids = <<>> THEN [Destroyed |-> destroyed, States |-> states]
    ELSE LET id == Head(ids)
         IN IF DataIsValidCellId(states, id)
            THEN ForceLoop(Tail(ids), destroyed \cup {id},
                           [states EXCEPT ![id + 1] = "Destroyed"])
            ELSE ForceLoop(Tail(ids), destroyed, states)

\* the loop of SetAnchors
RECURSIVE AnchorLoop(_, _, _, _)
AnchorLoop(ids, states, anchors, bIsAnchor) ==
    IF ids = <<>> THEN anchors
    ELSE AnchorLoop(Tail(ids), states,
                    IF DataIsValidCellId(states, Head(ids))
                    THEN (IF bIsAnchor THEN anchors \cup {Head(ids)}
                          ELSE anchors \ {Head(ids)})
                    ELSE anchors,
                    bIsAnchor)

\* ---- inputs ----
\* a star: cell 1 in the middle, cells 0, 2 and 3 around it
StarInit ==
    [ CellNeighbors |-> << <<1>>, <<0, 3, 2>>, <<1>>, <<1>> >>,
      CellPositions |-> << <<0, 0, 0>>, <<0, 0, 20>>, <<10, 0, 20>>, <<-10, 0, 5>> >>,
      CellTriangles |-> << <<5, 1>>, <<1, 2>>, <<2, 3, 3>>, <<3, 4>> >> ]

EmptyInit == [CellNeighbors |-> <<>>, CellPositions |-> <<>>, CellTriangles |-> <<>>]

InitDataSet == {StarInit, EmptyInit}

\* FStructuralIntegrityInitData::IsValid / GetCellCount
InitDataIsValid(d) ==
    Len(d.CellNeighbors) > 0 /\ Len(d.CellPositions) = Len(d.CellNeighbors)

InitDataCellCount(d) == Len(d.CellNeighbors)

SettingsSet == { [bAutoDetectFloorAnchors |-> FALSE, FloorHeightThreshold |-> 0],
                 [bAutoDetectFloorAnchors |-> TRUE, FloorHeightThreshold |-> 0] }

ThresholdSet == {0, 5}

\* cell IDs passed by callers; -1 and 4 are outside [0, cell count)
AnchorIds == {0 - 1, 0, 4}
ReadIds == {0 - 1, 2, 4}

\* ID lists passed to DestroyCells, ForceSetDestroyedCells and SetAnchors
IdLists == UNION {[1..n -> {0, 1, 4}] : n \in 0..MaxIdList}
ForceLists == {<<>>, <<1>>, <<0, 2>>, <<4>>}
AnchorLists == {<<>>, <<0, 3>>, <<3, 4>>}

InitSIS ==
    /\ IdleEvent
    /\ IdleCluster
    /\ IdleKey
    /\ IdleLock
    /\ IdleCalc
    /\ IdleSub
    /\ IdleQuant
    /\ IdleProbe
    /\ IdleBatch
    /\ IdleGraph
    /\ IdleEquiv
    /\ IdleSis

sisTables == <<CellNeighbors, CellPositions, CellTriangles>>

Called(op, id, ret) == sisCall' = [op |-> op, id |-> id, ret |-> ret]

Initialize(InitData, InSettings) ==
    /\ IF ~InitDataIsValid(InitData)
       THEN UNCHANGED <<bInitialized, sisTables, Settings, CellStates, AnchorCellIds,
                        DestroyedCellIds, ConnectedToAnchorCache, bCacheValid,
                        NextGroupId>>
       ELSE /\ CellNeighbors' = InitData.CellNeighbors
            /\ CellPositions' = InitData.CellPositions
            /\ CellTriangles' = InitData.CellTriangles
            /\ Settings' = InSettings
            /\ \E d \in {DataInitialize(InitDataCellCount(InitData))} :
                  /\ CellStates' = d.CellStates
                  /\ DestroyedCellIds' = d.DestroyedCellIds
                  /\ ConnectedToAnchorCache' = d.ConnectedToAnchorCache
                  /\ IF InSettings.bAutoDetectFloorAnchors
                        /\ InitDataCellCount(InitData) > 0
                     THEN /\ AnchorCellIds' = d.AnchorCellIds \cup
                               FloorCells(InitData.CellPositions,
                                          InSettings.FloorHeightThreshold)
                          /\ bCacheValid' = InvalidateCache(d.bCacheValid)
                     ELSE /\ AnchorCellIds' = d.AnchorCellIds
                          /\ bCacheValid' = d.bCacheValid
            /\ NextGroupId' = 0
            /\ bInitialized' = TRUE
    /\ Called("Initialize", 0, InitDataIsValid(InitData))
    /\ UNCHANGED sisFrame

Reset ==
    /\ CellStates' = DataReset.CellStates
    /\ AnchorCellIds' = DataReset.AnchorCellIds
    /\ DestroyedCellIds' = DataReset.DestroyedCellIds
    /\ ConnectedToAnchorCache' = DataReset.ConnectedToAnchorCache
    /\ bCacheValid' = DataReset.bCacheValid
    /\ CellNeighbors' = <<>>
    /\ CellPositions' = <<>>
    /\ CellTriangles' = <<>>
    /\ bInitialized' = FALSE
    /\ NextGroupId' = 0
    /\ Called("Reset", 0, FALSE)
    /\ UNCHANGED Settings
    /\ UNCHANGED sisFrame

\* a plausible slip: the anchor set changes but the cache stays valid
SetAnchor_KeepsCache(CellId, bIsAnchor) ==
    /\ IF ~DataIsValidCellId(CellStates, CellId)
       THEN UNCHANGED <<AnchorCellIds, bCacheValid>>
       ELSE /\ AnchorCellIds' = IF bIsAnchor THEN AnchorCellIds \cup {CellId}
                                ELSE AnchorCellIds \ {CellId}
            /\ UNCHANGED bCacheValid
    /\ Called("SetAnchor", CellId, bIsAnchor)
    /\ UNCHANGED <<bInitialized, sisTables, Settings, CellStates, DestroyedCellIds,
                   ConnectedToAnchorCache, NextGroupId>>
    /\ UNCHANGED sisFrame

SetAnchor(CellId, bIsAnchor) ==
    /\ IF ~DataIsValidCellId(CellStates, CellId)
       THEN UNCHANGED <<AnchorCellIds, bCacheValid>>
       ELSE /\ AnchorCellIds' = IF bIsAnchor THEN AnchorCellIds \cup {CellId}
                                ELSE AnchorCellIds \ {CellId}
            /\ bCacheValid' = InvalidateCache(bCacheValid)
    /\ Called("SetAnchor", CellId, bIsAnchor)
    /\ UNCHANGED <<bInitialized, sisTables, Settings, CellStates, DestroyedCellIds,
                   ConnectedToAnchorCache, NextGroupId>>
    /\ UNCHANGED sisFrame

SetAnchors(Ids, bIsAnchor) ==
    /\ AnchorCellIds' = AnchorLoop(Ids, CellStates, AnchorCellIds, bIsAnchor)
    /\ bCacheValid' = InvalidateCache(bCacheValid)
    /\ Called("SetAnchors", Ids, bIsAnchor)
    /\ UNCHANGED <<bInitialized, sisTables, Settings, CellStates, DestroyedCellIds,
                   ConnectedToAnchorCache, NextGroupId>>
    /\ UNCHANGED sisFrame

AutoDetectFloorAnchors(HeightThreshold) ==
    /\ IF Len(CellStates) = 0 \/ Len(CellPositions) # Len(CellStates)
       THEN UNCHANGED <<AnchorCellIds, bCacheValid>>
       ELSE /\ AnchorCellIds' = FloorCells(CellPositions, HeightThreshold)
            /\ bCacheValid' = InvalidateCache(bCacheValid)
    /\ Called("AutoDetectFloorAnchors", 0, FALSE)
    /\ UNCHANGED <<bInitialized, sisTables, Settings, CellStates, DestroyedCellIds,
                   ConnectedToAnchorCache, NextGroupId>>
    /\ UNCHANGED sisFrame

\* a plausible slip: the collapse test without the Num() > 0 guard
StructureCollapsed_NoGuard(anchors, destroyed) == anchors \subseteq destroyed

\* bAllAnchorsDestroyed && Data.AnchorCellIds.Num() > 0
StructureCollapsed(anchors, destroyed) ==
    anchors \subseteq destroyed /\ Cardinality(anchors) > 0

EmptyResult == [NewlyDestroyedCellIds |-> <<>>, DetachedGroups |-> <<>>,
                bStructureCollapsed |-> FALSE, TotalDestroyedCount |-> 0]

DestroyCells(Ids) ==
    /\ IF ~bInitialized
       THEN /\ Called("DestroyCells", Ids, EmptyResult)
            /\ UNCHANGED <<CellStates, DestroyedCellIds, ConnectedToAnchorCache,
                           bCacheValid, NextGroupId>>
       ELSE \E d \in {DestroyLoop(Ids, DestroyedCellIds, CellStates, <<>>)} :
            IF d.Newly = <<>>
            THEN /\ Called("DestroyCells", Ids, EmptyResult)
                 /\ UNCHANGED <<CellStates, DestroyedCellIds, ConnectedToAnchorCache,
                                bCacheValid, NextGroupId>>
            ELSE \E u \in {UpdateConnectivityAndFindDetached(
                              CellNeighbors, CellPositions, CellTriangles, AnchorCellIds,
                              d.Destroyed, d.States, ConnectedToAnchorCache,
                              InvalidateCache(bCacheValid),
                              NextGroupId)} :
                 /\ u.NextId <= MaxGroupId
                 /\ DestroyedCellIds' = d.Destroyed
                 /\ CellStates' = u.States
                 /\ ConnectedToAnchorCache' = u.Cache
                 /\ bCacheValid' = u.Valid
                 /\ NextGroupId' = u.NextId
                 /\ Called("DestroyCells", Ids,
                       [ NewlyDestroyedCellIds |-> d.Newly,
                         DetachedGroups |-> u.Groups,
                         bStructureCollapsed |->
                             StructureCollapsed(AnchorCellIds, d.Destroyed),
                         TotalDestroyedCount |-> Cardinality(d.Destroyed) ])
    /\ UNCHANGED <<bInitialized, sisTables, Settings, AnchorCellIds>>
    /\ UNCHANGED sisFrame

\* a plausible slip: like DestroyCells, the call returns early when it adds no
\* cell to the destroyed set
ForceSetDestroyedCells_OnlyWhenNew(Ids) ==
    /\ \E f \in {ForceLoop(Ids, DestroyedCellIds, CellStates)} :
       IF f.Destroyed = DestroyedCellIds
       THEN /\ Called("ForceSetDestroyedCells", Ids, <<>>)
            /\ UNCHANGED <<CellStates, DestroyedCellIds, ConnectedToAnchorCache,
                           bCacheValid, NextGroupId>>
       ELSE \E u \in {UpdateConnectivityAndFindDetached(
                    CellNeighbors, CellPositions, CellTriangles, AnchorCellIds,
                    f.Destroyed, f.States, ConnectedToAnchorCache,
                    InvalidateCache(bCacheValid),
                    NextGroupId)} :
           /\ u.NextId <= MaxGroupId
           /\ DestroyedCellIds' = f.Destroyed
           /\ CellStates' = u.States
           /\ ConnectedToAnchorCache' = u.Cache
           /\ bCacheValid' = u.Valid
           /\ NextGroupId' = u.NextId
           /\ Called("ForceSetDestroyedCells", Ids, u.Groups)
    /\ UNCHANGED <<bInitialized, sisTables, Settings, AnchorCellIds>>
    /\ UNCHANGED sisFrame

ForceSetDestroyedCells(Ids) ==
    /\ \E f \in {ForceLoop(Ids, DestroyedCellIds, CellStates)} :
       \E u \in {UpdateConnectivityAndFindDetached(
                    CellNeighbors, CellPositions, CellTriangles, AnchorCellIds,
                    f.Destroyed, f.States, ConnectedToAnchorCache,
                    InvalidateCache(bCacheValid),
                    NextGroupId)} :
           /\ u.NextId <= MaxGroupId
           /\ DestroyedCellIds' = f.Destroyed
           /\ CellStates' = u.States
           /\ ConnectedToAnchorCache' = u.Cache
           /\ bCacheValid' = u.Valid
           /\ NextGroupId' = u.NextId
           /\ Called("ForceSetDestroyedCells", Ids, u.Groups)
    /\ UNCHANGED <<bInitialized, sisTables, Settings, AnchorCellIds>>
    /\ UNCHANGED sisFrame

SetSettings(NewSettings) ==
    /\ Settings' = NewSettings
    /\ Called("SetSettings", 0, FALSE)
    /\ UNCHANGED <<bInitialized, sisTables, CellStates, AnchorCellIds, DestroyedCellIds,
                   ConnectedToAnchorCache, bCacheValid, NextGroupId>>
    /\ UNCHANGED sisFrame

sisState == <<bInitialized, sisTables, Settings, CellStates, AnchorCellIds,
              DestroyedCellIds, ConnectedToAnchorCache, bCacheValid, NextGroupId>>

GetCellState(CellId) ==
    /\ Called("GetCellState", CellId,
              IF ~DataIsValidCellId(CellStates, CellId) THEN "Destroyed"
              ELSE CellStates[CellId + 1])
    /\ UNCHANGED sisState
    /\ UNCHANGED sisFrame

\* a plausible slip: a stale cache is answered with "not connected"
IsCellConnectedToAnchor_StaleFalse(CellId) ==
    /\ Called("IsCellConnectedToAnchor", CellId,
              IF ~DataIsValidCellId(CellStates, CellId) THEN FALSE
              ELSE IF CellId \in DestroyedCellIds THEN FALSE
              ELSE IF bCacheValid THEN CellId \in ConnectedToAnchorCache
              ELSE FALSE)
    /\ UNCHANGED sisState
    /\ UNCHANGED sisFrame

IsCellConnectedToAnchor(CellId) ==
    /\ Called("IsCellConnectedToAnchor", CellId,
              IF ~DataIsValidCellId(CellStates, CellId) THEN FALSE
              ELSE IF CellId \in DestroyedCellIds THEN FALSE
              ELSE IF bCacheValid THEN CellId \in ConnectedToAnchorCache
              ELSE TRUE)
    /\ UNCHANGED sisState
    /\ UNCHANGED sisFrame

IsAnchor(CellId) ==
    /\ Called("IsAnchor", CellId, CellId \in AnchorCellIds)
    /\ UNCHANGED sisState
    /\ UNCHANGED sisFrame

GetCellWorldPosition(CellId) ==
    /\ Called("GetCellWorldPosition", CellId,
              IF ~DataIsValidCellId(CellStates, CellId) \/ CellId >= Len(CellPositions)
              THEN <<0, 0, 0>>
              ELSE CellPositions[CellId + 1])
    /\ UNCHANGED sisState
    /\ UNCHANGED sisFrame

NextSIS ==
    \/ \E d \in InitDataSet : \E st \in SettingsSet : Initialize(d, st) /\ UNCHANGED lkVars
    \/ Reset /\ UNCHANGED lkVars
    \/ \E id \in AnchorIds : \E b \in BOOLEAN : SetAnchor(id, b) /\ UNCHANGED lkVars
    \/ \E ids \in AnchorLists : \E b \in BOOLEAN : SetAnchors(ids, b) /\ UNCHANGED lkVars
    \/ \E t \in ThresholdSet : AutoDetectFloorAnchors(t) /\ UNCHANGED lkVars
    \/ \E ids \in IdLists : DestroyCells(ids) /\ UNCHANGED lkVars
    \/ \E ids \in ForceLists : ForceSetDestroyedCells(ids) /\ UNCHANGED lkVars
    \/ \E st \in SettingsSet : SetSettings(st) /\ UNCHANGED lkVars
    \/ \E id \in ReadIds : GetCellState(id) /\ UNCHANGED lkVars
    \/ \E id \in ReadIds : IsCellConnectedToAnchor(id) /\ UNCHANGED lkVars
    \/ \E id \in ReadIds : IsAnchor(id) /\ UNCHANGED lkVars
    \/ \E id \in ReadIds : GetCellWorldPosition(id) /\ UNCHANGED lkVars

SpecSIS == InitSIS /\ [][NextSIS]_vars

\* the cells reachable from a non-destroyed anchor through non-destroyed cells,
\* over the stored neighbour table
SisReachable ==
    LET n == Len(CellNeighbors)
        ids == 0..(n - 1)
        live == (AnchorCellIds \cap ids) \ DestroyedCellIds
        closed(S) == /\ live \subseteq S
                     /\ \A a \in S : (Range(CellNeighbors[a + 1]) \ DestroyedCellIds)
                                         \subseteq S
    IN {c \in ids : \A S \in SUBSET ids : closed(S) => c \in S}

WriteOps == {"Initialize", "Reset", "SetAnchor", "SetAnchors", "AutoDetectFloorAnchors",
             "DestroyCells", "ForceSetDestroyedCells", "SetSettings"}

\* C9: whenever bCacheValid holds, ConnectedToAnchorCache is exactly the set of
\* cells reachable from non-destroyed anchors through non-destroyed cells under
\* the current anchors and destroyed set; a step that changes the anchors or
\* the destroyed set leaves the cache invalid unless that same step recomputed
\* it (DestroyCells, ForceSetDestroyedCells); only those write paths make the
\* cache valid or change its contents.
C9_CacheCoherent ==
    /\ [](bCacheValid => ConnectedToAnchorCache = SisReachable)
    /\ [][ /\ (AnchorCellIds' # AnchorCellIds \/ DestroyedCellIds' # DestroyedCellIds)
                => (~bCacheValid'
                      \/ sisCall'.op \in {"DestroyCells", "ForceSetDestroyedCells"})
           /\ sisCall'.op \in {"SetAnchor", "SetAnchors", "AutoDetectFloorAnchors",
                               "Initialize"}
                => (~bCacheValid' \/ UNCHANGED <<AnchorCellIds, DestroyedCellIds>>)
           /\ ((bCacheValid' /\ ~bCacheValid)
                  \/ ConnectedToAnchorCache' # ConnectedToAnchorCache)
                => sisCall'.op \in WriteOps
         ]_vars

\* a valid cache that leaves out a live cell, computed with a cell destroyed
C9_Witness ==
    /\ bCacheValid
    /\ ConnectedToAnchorCache # {}
    /\ DestroyedCellIds # {}
    /\ \E c \in 0..(Len(CellStates) - 1) :
          c \notin DestroyedCellIds /\ c \notin ConnectedToAnchorCache

\* C10: IsCellConnectedToAnchor changes nothing of the system; it returns
\* false for an ID out of range or a destroyed cell, cache membership for a
\* live cell when the cache is valid and true when the cache is stale.
C10_ConnectedQuery ==
    [][ sisCall'.op = "IsCellConnectedToAnchor" =>
          /\ UNCHANGED sisState
          /\ sisCall'.ret =
                (IF sisCall'.id < 0 \/ sisCall'.id >= Len(CellStates) THEN FALSE
                 ELSE IF sisCall'.id \in DestroyedCellIds THEN FALSE
                 ELSE IF bCacheValid THEN sisCall'.id \in ConnectedToAnchorCache
                 ELSE TRUE)
      ]_vars

\* the conservative answer: the cache is stale, the cell is live and in fact
\* cut off from every anchor, and the query answered true
C10_Witness ==
    /\ sisCall.op = "IsCellConnectedToAnchor"
    /\ sisCall.ret = TRUE
    /\ ~bCacheValid
    /\ sisCall.id \in 0..(Len(CellStates) - 1)
    /\ sisCall.id \notin DestroyedCellIds
    /\ sisCall.id \notin SisReachable

\* C11: DestroyCells reports in NewlyDestroyedCellIds exactly the valid IDs of
\* its argument that were not destroyed before, each once (an ID already
\* destroyed or repeated in the call is not reported again), and adds them to
\* the destroyed set; when it reports none, connectivity is not recomputed:
\* destroyed set, cell states, cache validity and contents and NextGroupId
\* are unchanged.
C11_DestroyIdempotent ==
    [][ sisCall'.op = "DestroyCells" =>
          \E newly \in {sisCall'.ret.NewlyDestroyedCellIds} :
             /\ Cardinality(Range(newly)) = Len(newly)
             /\ Range(newly) \cap DestroyedCellIds = {}
             /\ Range(newly) = {id \in Range(sisCall'.id) :
                                   DataIsValidCellId(CellStates, id)} \ DestroyedCellIds
             /\ DestroyedCellIds' = DestroyedCellIds \cup Range(newly)
             /\ (newly = <<>> => UNCHANGED sisState)
      ]_vars

\* a call that names an already destroyed cell twice while the cache is stale
\* and a live cell is cut off: nothing is reported and the cache stays stale
C11_Witness ==
    /\ sisCall.op = "DestroyCells"
    /\ Len(sisCall.id) = 2
    /\ sisCall.id[1] = sisCall.id[2]
    /\ sisCall.id[1] \in DestroyedCellIds
    /\ sisCall.ret.NewlyDestroyedCellIds = <<>>
    /\ ~bCacheValid
    /\ \E c \in 0..(Len(CellStates) - 1) :
          c \notin DestroyedCellIds /\ c \notin SisReachable

\* C12: a DestroyCells result has bStructureCollapsed only when the anchor set
\* is non-empty and every anchor is in the destroyed set after the call; with
\* no anchors no collapse is reported.
C12_CollapseNeedsAnchors ==
    (sisCall.op = "DestroyCells" /\ sisCall.ret.bStructureCollapsed) =>
        (AnchorCellIds # {} /\ AnchorCellIds \subseteq DestroyedCellIds)

\* a call that destroyed the last live anchor and reported the collapse
C12_Witness ==
    /\ sisCall.op = "DestroyCells"
    /\ sisCall.ret.bStructureCollapsed
    /\ \E a \in AnchorCellIds : a \in Range(sisCall.ret.NewlyDestroyedCellIds)

(***************************************************************************)
(* Concurrent callers of FStructuralIntegritySystem.  Every public          *)
(* operation opens with a scope lock on DataLock; the caller then runs the  *)
(* body and the scope lock's destructor releases the lock on return.        *)
(* DestroyCells is split where its two phases meet: the DestroyCellInternal *)
(* loop, then UpdateConnectivityAndFindDetached.                            *)
(***************************************************************************)
ReadOps == {"GetCellState", "IsCellConnectedToAnchor", "IsAnchor", "GetCellWorldPosition"}

\* a plausible slip: DestroyCells opened with a read scope lock
LockKind_DestroyShared(op) ==
    IF op \in {"Initialize", "Reset", "SetAnchor", "SetAnchors", "AutoDetectFloorAnchors",
               "ForceSetDestroyedCells", "SetSettings"}
    THEN "write" ELSE "read"

\* FWriteScopeLock or FReadScopeLock, as the operation's first statement has it
LockKind(op) ==
    CASE op = "Initialize" -> "write"
      [] op = "Reset" -> "write"
      [] op = "SetAnchor" -> "write"
      [] op = "SetAnchors" -> "write"
      [] op = "AutoDetectFloorAnchors" -> "write"
      [] op = "DestroyCells" -> "write"
      [] op = "ForceSetDestroyedCells" -> "write"
      [] op = "SetSettings" -> "write"
      [] op = "GetCellState" -> "read"
      [] op = "IsCellConnectedToAnchor" -> "read"
      [] op = "IsAnchor" -> "read"
      [] op = "GetCellWorldPosition" -> "read"

\* FRWLock: one writer and no reader, or any number of readers and no writer
CanLock(kind, lock) ==
    IF kind = "write" THEN lock.writer = 0 /\ lock.readers = {}
    ELSE lock.writer = 0

Acquire(kind, lock, t) ==
    IF kind = "write" THEN [lock EXCEPT !.writer = t]
    ELSE [lock EXCEPT !.readers = @ \cup {t}]

\* a plausible slip: a return path that gives back a read lock only
Release_KeepsWriter(lock, t) ==
    [writer |-> lock.writer, readers |-> lock.readers \ {t}]

\* the scope lock's destructor: whichever lock t holds is given back
Release(lock, t) ==
    [writer |-> IF lock.writer = t THEN 0 ELSE lock.writer,
     readers |-> lock.readers \ {t}]

Op(op, arg, b) == [op |-> op, arg |-> arg, b |-> b, newly |-> <<>>]

AutoSettings == [bAutoDetectFloorAnchors |-> TRUE, FloorHeightThreshold |-> 0]

\* the calls the concurrent callers make
LockCalls ==
    { Op("Initialize", AutoSettings, FALSE),
      Op("Reset", 0, FALSE),
      Op("SetAnchor", 0, TRUE),
      Op("SetAnchors", <<0, 3>>, FALSE),
      Op("AutoDetectFloorAnchors", 0, FALSE),
      Op("DestroyCells", <<1>>, FALSE),
      Op("ForceSetDestroyedCells", <<1>>, FALSE),
      Op("SetSettings", AutoSettings, FALSE),
      Op("GetCellState", 2, FALSE),
      Op("IsCellConnectedToAnchor", 2, FALSE) }

GroupOps == {"DestroyCells", "ForceSetDestroyedCells"}

\* NextGroupId stays within MaxGroupId: a call that can make groups is only
\* begun while every group it and the calls before it could make fits
GroupBudget(c) ==
    c.op \in GroupOps =>
        /\ \A u \in Threads : thPc[u] = "idle" \/ thOp[u].op \notin GroupOps
        /\ NextGroupId + Len(StarInit.CellNeighbors) <= MaxGroupId

\* caller t enters a public operation
Call(t, c) ==
    /\ thPc[t] = "idle"
    /\ GroupBudget(c)
    /\ thOp' = [thOp EXCEPT ![t] = c]
    /\ thPc' = [thPc EXCEPT ![t] = "lock"]
    /\ thLocks' = [thLocks EXCEPT ![t] = 0]
    /\ UNCHANGED <<DataLock, sisVars, sisFrame>>

\* DestroyCell: builds the one-element array and calls DestroyCells
CallDestroyCell(t, CellId) ==
    Call(t, Op("DestroyCells", <<CellId>>, TRUE))

\* the scope lock's constructor
Lock(t) ==
    /\ thPc[t] = "lock"
    /\ CanLock(LockKind(thOp[t].op), DataLock)
    /\ thPc' = [thPc EXCEPT ![t] = "run"]
    /\ DataLock' = Acquire(LockKind(thOp[t].op), DataLock, t)
    /\ thLocks' = [thLocks EXCEPT ![t] = @ + 1]
    /\ UNCHANGED <<thOp, sisVars, sisFrame>>

\* the body of every operation but DestroyCells
Run(t) ==
    /\ thPc[t] = "run"
    /\ thPc' = [thPc EXCEPT ![t] = "unlock"]
    /\ \E c \in {thOp[t]} :
          \/ c.op = "Initialize" /\ Initialize(StarInit, c.arg)
          \/ c.op = "Reset" /\ Reset
          \/ c.op = "SetAnchor" /\ SetAnchor(c.arg, c.b)
          \/ c.op = "SetAnchors" /\ SetAnchors(c.arg, c.b)
          \/ c.op = "AutoDetectFloorAnchors" /\ AutoDetectFloorAnchors(c.arg)
          \/ c.op = "ForceSetDestroyedCells" /\ ForceSetDestroyedCells(c.arg)
          \/ c.op = "SetSettings" /\ SetSettings(c.arg)
          \/ c.op = "GetCellState" /\ GetCellState(c.arg)
          \/ c.op = "IsCellConnectedToAnchor" /\ IsCellConnectedToAnchor(c.arg)
    /\ UNCHANGED <<DataLock, thOp, thLocks>>

\* DestroyCells up to the early return: the DestroyCellInternal loop
DestroyCellsMark(t) ==
    /\ thPc[t] = "run"
    /\ thOp[t].op = "DestroyCells"
    /\ \E d \in {IF ~bInitialized
                 THEN [Destroyed |-> DestroyedCellIds, States |-> CellStates,
                       Newly |-> <<>>]
                 ELSE DestroyLoop(thOp[t].arg, DestroyedCellIds, CellStates, <<>>)} :
          /\ thPc' = [thPc EXCEPT ![t] = IF d.Newly = <<>> THEN "unlock" ELSE "update"]
          /\ DestroyedCellIds' = d.Destroyed
          /\ CellStates' = d.States
          /\ IF d.Newly = <<>>
             THEN /\ Called("DestroyCells", thOp[t].arg, EmptyResult)
                  /\ UNCHANGED <<bCacheValid, thOp>>
             ELSE /\ bCacheValid' = InvalidateCache(bCacheValid)
                  /\ thOp' = [thOp EXCEPT ![t].newly = d.Newly]
                  /\ UNCHANGED sisCall
    /\ UNCHANGED <<bInitialized, sisTables, Settings, AnchorCellIds,
                   ConnectedToAnchorCache, NextGroupId>>
    /\ UNCHANGED <<DataLock, thLocks, sisFrame>>

\* DestroyCells from UpdateConnectivityAndFindDetached to the return
DestroyCellsUpdate(t) ==
    /\ thPc[t] = "update"
    /\ thPc' = [thPc EXCEPT ![t] = "unlock"]
    /\ \E u \in {UpdateConnectivityAndFindDetached(
                    CellNeighbors, CellPositions, CellTriangles, AnchorCellIds,
                    DestroyedCellIds, CellStates, ConnectedToAnchorCache,
                    bCacheValid, NextGroupId)} :
          /\ CellStates' = u.States
          /\ ConnectedToAnchorCache' = u.Cache
          /\ bCacheValid' = u.Valid
          /\ NextGroupId' = u.NextId
          /\ Called("DestroyCells", thOp[t].arg,
                    [ NewlyDestroyedCellIds |-> thOp[t].newly,
                      DetachedGroups |-> u.Groups,
                      bStructureCollapsed |->
                          StructureCollapsed(AnchorCellIds, DestroyedCellIds),
                      TotalDestroyedCount |-> Cardinality(DestroyedCellIds) ])
    /\ UNCHANGED <<bInitialized, sisTables, Settings, AnchorCellIds, DestroyedCellIds>>
    /\ UNCHANGED <<DataLock, thOp, thLocks, sisFrame>>

\* the scope lock's destructor, on return
Unlock(t) ==
    /\ thPc[t] = "unlock"
    /\ thPc' = [thPc EXCEPT ![t] = "idle"]
    /\ DataLock' = Release(DataLock, t)
    /\ thOp' = [thOp EXCEPT ![t] = NoOp]
    /\ thLocks' = [thLocks EXCEPT ![t] = 0]
    /\ UNCHANGED <<sisVars, sisFrame>>

InitLock ==
    /\ IdleEvent
    /\ IdleCluster
    /\ IdleKey
    /\ IdleBatch
    /\ IdleGraph
    /\ IdleEquiv
    /\ IdleSis
    /\ IdleLock
    /\ IdleCalc
    /\ IdleSub
    /\ IdleQuant
    /\ IdleProbe

NextLock ==
    \/ \E t \in Threads : \E c \in LockCalls : Call(t, c)
    \/ \E t \in Threads : CallDestroyCell(t, 0)
    \/ \E t \in Threads : Lock(t)
    \/ \E t \in Threads : Run(t)
    \/ \E t \in Threads : DestroyCellsMark(t)
    \/ \E t \in Threads : DestroyCellsUpdate(t)
    \/ \E t \in Threads : Unlock(t)

SpecLock == InitLock /\ [][NextLock]_vars

\* caller t, inside an operation and past the lock, takes its next step
Proceed(t) ==
    /\ thPc[t] \in {"run", "update", "unlock"}
    /\ \E q \in {"update", "unlock", "idle"} : thPc' = [thPc EXCEPT ![t] = q]

\* a caller inside an operation keeps running, and the lock is granted fairly:
\* a caller that can take the lock again and again does take it
SpecLockFair ==
    /\ SpecLock
    /\ \A t \in Threads : WF_thPc(Proceed(t)) /\ SF_thPc(Lock(t))

InBody(t) == thPc[t] \in {"run", "update", "unlock"}

\* C13: under any interleaving of concurrent callers, a caller inside a write
\* operation (Initialize, Reset, SetAnchor(s), AutoDetectFloorAnchors,
\* DestroyCells, ForceSetDestroyedCells, SetSettings) holds DataLock alone, a
\* caller inside a read accessor holds it shared with no writer, and so no
\* read accessor runs while a DestroyCells call is half-applied (cells already
\* destroyed, connectivity cache and detached marking not yet updated).
C13_NoTornRead ==
    /\ DataLock.writer # 0 => DataLock.readers = {}
    /\ \A t \in Threads :
          InBody(t) =>
             IF thOp[t].op \in WriteOps
             THEN DataLock.writer = t /\ DataLock.readers = {}
             ELSE thOp[t].op \in ReadOps /\ t \in DataLock.readers /\ DataLock.writer = 0
    /\ \A r \in Threads :
          (InBody(r) /\ thOp[r].op \in ReadOps) =>
             \A w \in Threads :
                /\ thPc[w] # "update"
                /\ thOp[w].newly = <<>>
                /\ (InBody(w) => thOp[w].op \in ReadOps)

\* a reader waits for the lock while DestroyCells is half-applied
C13_Witness ==
    \E r \in Threads : \E w \in Threads :
       /\ thPc[w] = "update" /\ thOp[w].newly # <<>>
       /\ Range(thOp[w].newly) \subseteq DestroyedCellIds
       /\ ~bCacheValid
       /\ thPc[r] = "lock" /\ thOp[r].op \in ReadOps

\* C14: every public operation takes DataLock exactly once per call and never
\* again while it holds it, has given it back on every return, its BFS loops
\* take each cell from the queue at most once, its body is never blocked, and
\* hence, under fair lock scheduling, every call that was begun returns.
C14_CallsComplete ==
    /\ [](\A t \in Threads :
             /\ thLocks[t] = IF InBody(t) THEN 1 ELSE 0
             /\ ~InBody(t) => (DataLock.writer # t /\ t \notin DataLock.readers)
             /\ thPc[t] = "update" =>
                  UpdateConnectivityAndFindDetached(
                      CellNeighbors, CellPositions, CellTriangles, AnchorCellIds,
                      DestroyedCellIds, CellStates, ConnectedToAnchorCache,
                      bCacheValid, NextGroupId).NextId <= MaxGroupId
             /\ (thPc[t] = "run" /\ thOp[t].op = "ForceSetDestroyedCells") =>
                  \E f \in {ForceLoop(thOp[t].arg, DestroyedCellIds, CellStates)} :
                     UpdateConnectivityAndFindDetached(
                         CellNeighbors, CellPositions, CellTriangles, AnchorCellIds,
                         f.Destroyed, f.States, ConnectedToAnchorCache,
                         InvalidateCache(bCacheValid), NextGroupId).NextId <= MaxGroupId)
    /\ [](\E seeds \in {SelectSeq(SortedArray(AnchorCellIds),
                                  LAMBDA a : a \notin DestroyedCellIds)} :
          \E order \in {ConnectedBFSDequeued(CellNeighbors, DestroyedCellIds, seeds,
                                             Range(seeds), <<>>)} :
             Cardinality(Range(order)) = Len(order))
    /\ [](sisCall.op = "DestroyCells" =>
             \E cells \in {Flatten([i \in 1..Len(sisCall.ret.DetachedGroups) |->
                                       sisCall.ret.DetachedGroups[i].CellIds])} :
                Cardinality(Range(cells)) = Len(cells))
    /\ \A t \in Threads : (thPc[t] # "idle") ~> (thPc[t] = "idle")

\* a DestroyCells call that detached cells has returned and given the lock
\* back, and the other caller is now inside a write operation
C14_Witness ==
    \E t \in Threads : \E u \in Threads :
       /\ thPc[t] = "idle" /\ thPc[u] = "run"
       /\ DataLock.writer = u
       /\ sisCall.op = "DestroyCells"
       /\ sisCall.ret.DetachedGroups # <<>>

(***************************************************************************)
(* CalculateDestroyedCells on every sub-grid of the 3x2 sheet, every        *)
(* destroyed set and a few shapes                                          *)
(***************************************************************************)
\* a box over all of cell 0 that reaches just past the faces cells 1 and 3
\* share with it: it holds four corners of cell 1 and of cell 3, two of cell 4
HalfBox == [Type |-> "Box", Center |-> <<-400, 500, 500>>, Radius |-> 0,
            BoxExtent |-> <<1600, 600, 600>>,
            Rotation |-> <<0, 0, 0>>, EndPoint |-> <<0, 0, 0>>,
            LineThickness |-> 0]

CalcShapes ==
    ShapeSet \cup { HalfBox,
                    [Type |-> "Sphere", Center |-> <<-5000, 500, 500>>, Radius |-> 100,
                     BoxExtent |-> <<0, 0, 0>>,
                     Rotation |-> <<0, 0, 0>>, EndPoint |-> <<0, 0, 0>>,
                     LineThickness |-> 0] }

InitCalc ==
    /\ IdleEvent
    /\ IdleCluster
    /\ IdleKey
    /\ IdleSub
    /\ IdleQuant
    /\ IdleProbe
    /\ IdleBatch
    /\ IdleGraph
    /\ IdleEquiv
    /\ IdleSis
    /\ IdleLock
    /\ cdCache \in {[Exists |-> e, Anchor |-> {}] : e \in SUBSET CellIds}
    /\ cdShape \in {FromDestructionShape(sh) : sh \in CalcShapes}
    /\ cdDestroyed \in SUBSET cdCache.Exists
    /\ cdResult = <<>>
    /\ cdPc = "input"

\* NewlyDestroyed = CalculateDestroyedCells(Cache, Shape, MeshTransform, DestroyedCells)
CalcStep ==
    /\ cdPc = "input"
    /\ cdResult' = CalculateDestroyedCells(cdCache, cdShape, MeshTransform, cdDestroyed)
    /\ cdPc' = "done"
    /\ UNCHANGED <<cdCache, cdShape, cdDestroyed>>
    /\ UNCHANGED <<bpVars, gVars, eqVars, sisVars, lkVars, scVars, qVars, pVars,
                 evVars, bcVars, kVars>>

NextCalc == CalcStep

SpecCalc == InitCalc /\ [][NextCalc]_vars

\* the eight corners of a cell in world space, from its grid coordinate
WorldCorners(id) ==
    LET c == IdToCoord(id)
        lo(i) == GridOrigin[i] + c[i] * CellSize[i] + MeshTransform[i]
    IN { <<x, y, z>> : x \in {lo(1), lo(1) + CellSize[1]},
                       y \in {lo(2), lo(2) + CellSize[2]},
                       z \in {lo(3), lo(3) + CellSize[3]} }

CornersInside(shape, id) ==
    Cardinality({v \in WorldCorners(id) : ContainsPoint(shape, v)})

CenterInside(shape, id) == ContainsPoint(shape, IdToWorldCenter(id, MeshTransform))

\* C15: CalculateDestroyedCells returns, each once, exactly the existing cells
\* not already in the destroyed set whose world centre lies in the shape or at
\* least 4 of whose 8 world-space corners lie in the shape, and leaves the
\* destroyed set it was passed as it was.
C15_DestroyedExact ==
    [][ cdPc' = "done" =>
          /\ cdDestroyed' = cdDestroyed
          /\ Cardinality(Range(cdResult')) = Len(cdResult')
          /\ Range(cdResult') =
                {id \in CellIds :
                    /\ id \in cdCache.Exists
                    /\ id \notin cdDestroyed
                    /\ CenterInside(cdShape, id) \/ CornersInside(cdShape, id) >= 4}
      ]_vars

\* a cell is returned for its corners alone, while a destroyed cell and a
\* missing cell inside the shape are left out
C15_Witness ==
    /\ cdPc = "done"
    /\ \E id \in Range(cdResult) : ~CenterInside(cdShape, id)
    /\ \E id \in cdDestroyed : CenterInside(cdShape, id) /\ id \notin Range(cdResult)
    /\ \E id \in CellIds \ cdCache.Exists :
          CornersInside(cdShape, id) >= 4 /\ id \notin Range(cdResult)

\* C16: a cell exactly half-covered by the shape (exactly 4 of its 8 corners
\* inside, centre outside) is not destroyed.
C16_HalfCoveredSurvives ==
    cdPc = "done" =>
       \A id \in cdCache.Exists \ cdDestroyed :
          (CornersInside(cdShape, id) = 4 /\ ~CenterInside(cdShape, id))
             => id \notin Range(cdResult)

(***************************************************************************)
(* Order of the groups and of their members (specification SpecGraph)      *)
(***************************************************************************)
Min(S) == CHOOSE m \in S : \A x \in S : m <= x

IsStrictlyAscending(s) == \A i \in 1..(Len(s) - 1) : s[i] < s[i + 1]

\* C17: given the disconnected set FindDisconnectedCells produced, the groups
\* come in ascending order of their start cell, and the start cell of a group
\* (its first member) is the smallest ID of the component.
C17_GroupsByStartId ==
    gPc = "grouped" =>
        /\ \A g \in 1..Len(gGroups) : gGroups[g][1] = Min(Range(gGroups[g]))
        /\ IsStrictlyAscending([g \in 1..Len(gGroups) |-> gGroups[g][1]])

\* two groups cut apart by destroyed cells, the second of several cells
C17_Witness ==
    /\ gPc = "grouped"
    /\ gDestroyed # {}
    /\ Len(gGroups) = 2
    /\ Len(gGroups[2]) >= 2

\* number of neighbour links on a shortest path inside comp from a cell of
\* frontier to target (k counts the links walked so far)
RECURSIVE LinkDistance(_, _, _, _, _, _)
LinkDistance(links, comp, frontier, seen, target, k) ==
    IF target \in frontier THEN k
    ELSE IF frontier = {} THEN 0 - 1
    ELSE LET next == ((UNION {links[c] : c \in frontier}) \cap comp) \ seen
         IN LinkDistance(links, comp, next, seen \cup next, target, k + 1)

\* C18 as stated: every group has its member cell IDs in ascending order
C18_MembersAscending ==
    gPc = "grouped" => \A g \in 1..Len(gGroups) : IsStrictlyAscending(gGroups[g])

\* C18, as the code has it: every group lists its cells once each in the order
\* the flood fill took them from its queue: the start cell (the smallest ID)
\* first, then cells in non-decreasing link distance from it.
C18_MembersInQueueOrder ==
    gPc = "grouped" =>
        \A links \in {NeighborSets(gCache)} :
        \A g \in 1..Len(gGroups) :
           LET grp == gGroups[g]
               d(i) == LinkDistance(links, Range(grp), {grp[1]}, {grp[1]}, grp[i], 0)
           IN /\ Cardinality(Range(grp)) = Len(grp)
              /\ grp[1] = Min(Range(grp))
              /\ \A i \in 1..(Len(grp) - 1) : d(i) >= 0 /\ d(i) <= d(i + 1)

\* a group whose members are not in ascending order
C18_Witness ==
    /\ gPc = "grouped"
    /\ \E g \in 1..Len(gGroups) :
          Len(gGroups[g]) >= 4 /\ ~IsStrictlyAscending(gGroups[g])

RowScenario ==
    /\ gCache = [Exists |-> {0, 1, 2}, Anchor |-> {0}]
    /\ gDestroyed = {1}

\* C20: on the row 0-1-2 with only cell 0 anchored, after cell 1 is destroyed
\* FindDisconnectedCells returns {2}, GroupDetachedCells returns the one group
\* [2], and CalculateGroupCenter of that group is cell 2's world centre.
C20_RowScenario ==
    (RowScenario /\ gPc = "grouped") =>
        /\ gDisconnected = <<2>>
        /\ gGroups = << <<2>> >>
        /\ \E c \in {CalculateGroupCenter(gCache, gGroups[1], MeshTransform)} :
              /\ c.Num = 1
              /\ c.Sum = <<250, 50, 50>>
              /\ c.Sum = IdToWorldCenter(2, MeshTransform)

C20_Witness ==
    /\ RowScenario
    /\ gPc = "grouped"
    /\ Len(gGroups) = 1

(***************************************************************************)
(* Sub-cell connectivity: FindDisconnectedCellsWithSubCells, in the        *)
(* cell-by-cell form and in the older sub-cell-by-sub-cell form            *)
(* (specification SpecSub)                                                 *)
(***************************************************************************)
MaxDamaged == 2        \* cells that carry a sub-cell entry with dead sub-cells

\* sub-cell (x, y, z) of a cell has ID x + 2y + 4z
SubCellIds == 0..7

SubCellIdToCoord(SubCellId) ==
    << SubCellId % 2, (SubCellId \div 2) % 2, SubCellId \div 4 >>

SubCellCoordToId(x, y, z) == x + 2 * y + 4 * z

\* 0:-X, 1:+X, 2:-Y, 3:+Y, 4:-Z, 5:+Z
DIRECTION_OFFSETS == << <<-1, 0, 0>>, <<1, 0, 0>>, <<0, -1, 0>>,
                        <<0, 1, 0>>, <<0, 0, -1>>, <<0, 0, 1>> >>

IsValidCoord(c) == InGrid(c)

\* the cell state handed to the search
MakeCellState(destroyed, dead) == [DestroyedCells |-> destroyed, SubCellStates |-> dead]

\* a cell without a sub-cell entry has every sub-cell alive
IsSubCellAlive(CellState, CellId, SubCellId) ==
    SubCellId \notin CellState.SubCellStates[CellId]

IsFullyDestroyed(CellState, CellId) == CellState.SubCellStates[CellId] = SubCellIds

\* (current sub-cell, sub-cell of the neighbour) across each face
BOUNDARY_PAIRS_POS_X == << <<1, 0>>, <<3, 2>>, <<5, 4>>, <<7, 6>> >>

BOUNDARY_PAIRS_NEG_X == << <<0, 1>>, <<2, 3>>, <<4, 5>>, <<6, 7>> >>

BOUNDARY_PAIRS_POS_Y == << <<2, 0>>, <<3, 1>>, <<6, 4>>, <<7, 5>> >>

BOUNDARY_PAIRS_NEG_Y == << <<0, 2>>, <<1, 3>>, <<4, 6>>, <<5, 7>> >>

BOUNDARY_PAIRS_POS_Z == << <<4, 0>>, <<5, 1>>, <<6, 2>>, <<7, 3>> >>

BOUNDARY_PAIRS_NEG_Z == << <<0, 4>>, <<1, 5>>, <<2, 6>>, <<3, 7>> >>

\* nullptr is the empty table
GetBoundaryPairs(Direction) ==
    CASE Direction = 0 -> BOUNDARY_PAIRS_NEG_X
      [] Direction = 1 -> BOUNDARY_PAIRS_POS_X
      [] Direction = 2 -> BOUNDARY_PAIRS_NEG_Y
      [] Direction = 3 -> BOUNDARY_PAIRS_POS_Y
      [] Direction = 4 -> BOUNDARY_PAIRS_NEG_Z
      [] Direction = 5 -> BOUNDARY_PAIRS_POS_Z
      [] OTHER -> <<>>

\* a plausible slip: one live boundary sub-cell on either side is enough
HasConnectedBoundary_EitherSide(CellA, CellB, Direction, CellState) ==
    LET Pairs == GetBoundaryPairs(Direction)
    IN /\ Pairs # <<>>
       /\ \E i \in 1..4 : \/ IsSubCellAlive(CellState, CellA, Pairs[i][1])
                          \/ IsSubCellAlive(CellState, CellB, Pairs[i][2])

HasConnectedBoundary(CellA, CellB, Direction, CellState) ==
    LET Pairs == GetBoundaryPairs(Direction)
    IN /\ Pairs # <<>>
       /\ \E i \in 1..4 : /\ IsSubCellAlive(CellState, CellA, Pairs[i][1])
                          /\ IsSubCellAlive(CellState, CellB, Pairs[i][2])

\* a plausible slip: only the destroyed set is asked
HasAliveSubCell_DestroyedSetOnly(CellId, CellState) ==
    CellId \notin CellState.DestroyedCells

HasAliveSubCell(CellId, CellState) ==
    IF CellId \in CellState.DestroyedCells THEN FALSE
    ELSE ~IsFullyDestroyed(CellState, CellId)

\* the neighbour of a cell in a direction, as a coordinate
NeighborCoord(CellId, Dir) ==
    LET c == IdToCoord(CellId)
    IN << c[1] + DIRECTION_OFFSETS[Dir + 1][1],
          c[2] + DIRECTION_OFFSETS[Dir + 1][2],
          c[3] + DIRECTION_OFFSETS[Dir + 1][3] >>

\* for (Dir = 0; Dir < 6; ++Dir) of the cell-by-cell search
RECURSIVE SubCellDirLoop(_, _, _, _, _, _)
SubCellDirLoop(cache, CellState, Curr, Dir, visited, enq) ==
    IF Dir >= 6 THEN [Visited |-> visited, Enqueued |-> enq]
    ELSE LET nc == NeighborCoord(Curr, Dir)
             n == CoordToId(nc[1], nc[2], nc[3])
             take == /\ IsValidCoord(nc)
                     /\ n \notin Range(visited)
                     /\ GetCellExists(cache, n)
                     /\ n \notin CellState.DestroyedCells
                     /\ HasConnectedBoundary(Curr, n, Dir, CellState)
         IN IF take
            THEN SubCellDirLoop(cache, CellState, Curr, Dir + 1,
                                Append(visited, n), Append(enq, n))
            ELSE SubCellDirLoop(cache, CellState, Curr, Dir + 1, visited, enq)

\* while (!CellQueue.IsEmpty()) of the cell-by-cell search
RECURSIVE SubCellQueueLoop(_, _, _, _, _)
SubCellQueueLoop(cache, CellState, Confirmed, queue, visited) ==
    IF queue = <<>> THEN [Reached |-> FALSE, Visited |-> visited]
    ELSE IF GetCellIsAnchor(cache, Head(queue)) \/ Head(queue) \in Confirmed
         THEN [Reached |-> TRUE, Visited |-> visited]
         ELSE LET step == SubCellDirLoop(cache, CellState, Head(queue), 0, visited, <<>>)
              IN SubCellQueueLoop(cache, CellState, Confirmed,
                                  Tail(queue) \o step.Enqueued, step.Visited)

\* the return value and OutVisitedCells (in insertion order)
PerformSubCellBFS(cache, CellState, StartCellId, ConfirmedConnected) ==
    IF ~HasAliveSubCell(StartCellId, CellState)
    THEN [Reached |-> FALSE, Visited |-> <<>>]
    ELSE SubCellQueueLoop(cache, CellState, ConfirmedConnected,
                          <<StartCellId>>, <<StartCellId>>)

\* step 1: the affected cells that are not destroyed and their non-destroyed
\* neighbours, in insertion order
RECURSIVE CollectCandidates(_, _, _, _)
CollectCandidates(cache, CellState, Affected, cands) ==
    IF Affected = <<>> THEN cands
    ELSE IF Head(Affected) \in CellState.DestroyedCells
         THEN CollectCandidates(cache, CellState, Tail(Affected), cands)
         ELSE LET alive(n) == n \notin CellState.DestroyedCells
                  nbrs == SelectSeq(GetCellNeighbors(cache, Head(Affected)), alive)
              IN CollectCandidates(cache, CellState, Tail(Affected),
                                   AddAllUnique(AddUnique(cands, Head(Affected)), nbrs))

\* step 2: one search per candidate not yet processed
RECURSIVE CandidateLoop(_, _, _, _, _, _)
CandidateLoop(cache, CellState, cands, Confirmed, Processed, Disconnected) ==
    IF cands = <<>> THEN Disconnected
    ELSE IF Head(cands) \in Processed
         THEN CandidateLoop(cache, CellState, Tail(cands),
                            Confirmed, Processed, Disconnected)
         ELSE LET r == PerformSubCellBFS(cache, CellState, Head(cands), Confirmed)
              IN CandidateLoop(cache, CellState, Tail(cands),
                               IF r.Reached THEN Confirmed \cup Range(r.Visited)
                                            ELSE Confirmed,
                               Processed \cup Range(r.Visited),
                               IF r.Reached THEN Disconnected
                                            ELSE AddAllUnique(Disconnected, r.Visited))

FindDisconnectedCellsWithSubCells(cache, CellState, AffectedCells) ==
    CandidateLoop(cache, CellState,
                  CollectCandidates(cache, CellState, AffectedCells, <<>>),
                  {}, {}, <<>>)

\* ---- the older search, sub-cell by sub-cell ----
\* the sub-cell of the neighbour that faces a boundary sub-cell
GetCorrespondingBoundarySubCell(SubCellId, Direction) ==
    LET Coord == SubCellIdToCoord(SubCellId)
    IN CASE Direction = 0 -> SubCellCoordToId(1, Coord[2], Coord[3])
         [] Direction = 1 -> SubCellCoordToId(0, Coord[2], Coord[3])
         [] Direction = 2 -> SubCellCoordToId(Coord[1], 1, Coord[3])
         [] Direction = 3 -> SubCellCoordToId(Coord[1], 0, Coord[3])
         [] Direction = 4 -> SubCellCoordToId(Coord[1], Coord[2], 1)
         [] Direction = 5 -> SubCellCoordToId(Coord[1], Coord[2], 0)
         [] OTHER -> 0 - 1

IsSubCellOnBoundary(SubCellId, Direction) ==
    LET Coord == SubCellIdToCoord(SubCellId)
    IN CASE Direction = 0 -> Coord[1] = 0
         [] Direction = 1 -> Coord[1] = 1
         [] Direction = 2 -> Coord[2] = 0
         [] Direction = 3 -> Coord[2] = 1
         [] Direction = 4 -> Coord[3] = 0
         [] Direction = 5 -> Coord[3] = 1
         [] OTHER -> FALSE

\* the first alive sub-cell of a cell, -1 if there is none
FindFirstAliveSubCell(CellId, CellState) ==
    IF CellId \in CellState.DestroyedCells THEN 0 - 1
    ELSE LET alive == {sc \in SubCellIds : IsSubCellAlive(CellState, CellId, sc)}
         IN IF alive = {} THEN 0 - 1 ELSE Min(alive)

\* a | b of two non-negative integers
RECURSIVE BitOr(_, _)
BitOr(a, b) ==
    IF a = 0 THEN b
    ELSE IF b = 0 THEN a
    ELSE (IF a % 2 = 1 \/ b % 2 = 1 THEN 1 ELSE 0) + 2 * BitOr(a \div 2, b \div 2)

\* a plausible slip: the cell ID is shifted by one byte only
MakeKey_Shift8(CellId, SubCellId) == BitOr((CellId % 65536) * 256, SubCellId % 65536)

\* (CellId << 16) | SubCellId in int32: the upper half-word is the low 16 bits of
\* CellId or-ed with the upper half-word of SubCellId, the lower one is SubCellId's
MakeKey(CellId, SubCellId) ==
    LET hi == BitOr(CellId % 65536, (SubCellId \div 65536) % 65536)
        lo == SubCellId % 65536
    IN (IF hi >= 32768 THEN hi - 65536 ELSE hi) * 65536 + lo

\* for (Dir = 0; Dir < 6; ++Dir) of the older search; the queue holds
\* (cell, sub-cell) pairs
RECURSIVE OldDirLoop(_, _, _, _, _, _, _)
OldDirLoop(cache, CellState, Current, Dir, keys, cells, enq) ==
    IF Dir >= 6 THEN [Keys |-> keys, Cells |-> cells, Enqueued |-> enq]
    ELSE LET CurrCellId == Current[1]
             CurrSubCellId == Current[2]
             SubCoord == SubCellIdToCoord(CurrSubCellId)
             NewSubCoord == << SubCoord[1] + DIRECTION_OFFSETS[Dir + 1][1],
                               SubCoord[2] + DIRECTION_OFFSETS[Dir + 1][2],
                               SubCoord[3] + DIRECTION_OFFSETS[Dir + 1][3] >>
             inside == \A k \in 1..3 : NewSubCoord[k] >= 0 /\ NewSubCoord[k] < 2
             NextSubCellId == SubCellCoordToId(NewSubCoord[1], NewSubCoord[2], NewSubCoord[3])
             nc == NeighborCoord(CurrCellId, Dir)
             NeighborCellId == CoordToId(nc[1], nc[2], nc[3])
             NeighborSubCellId == GetCorrespondingBoundarySubCell(CurrSubCellId, Dir)
         IN IF inside
            THEN IF /\ MakeKey(CurrCellId, NextSubCellId) \notin keys
                    /\ IsSubCellAlive(CellState, CurrCellId, NextSubCellId)
                 THEN OldDirLoop(cache, CellState, Current, Dir + 1,
                                 keys \cup {MakeKey(CurrCellId, NextSubCellId)}, cells,
                                 Append(enq, <<CurrCellId, NextSubCellId>>))
                 ELSE OldDirLoop(cache, CellState, Current, Dir + 1, keys, cells, enq)
            ELSE IF /\ IsSubCellOnBoundary(CurrSubCellId, Dir)
                    /\ IsValidCoord(nc)
                    /\ GetCellExists(cache, NeighborCellId)
                    /\ NeighborCellId \notin CellState.DestroyedCells
                    /\ MakeKey(NeighborCellId, NeighborSubCellId) \notin keys
                    /\ IsSubCellAlive(CellState, NeighborCellId, NeighborSubCellId)
                 THEN OldDirLoop(cache, CellState, Current, Dir + 1,
                                 keys \cup {MakeKey(NeighborCellId, NeighborSubCellId)},
                                 AddUnique(cells, NeighborCellId),
                                 Append(enq, <<NeighborCellId, NeighborSubCellId>>))
                 ELSE OldDirLoop(cache, CellState, Current, Dir + 1, keys, cells, enq)

\* while (!Queue.IsEmpty()) of the older search
RECURSIVE OldQueueLoop(_, _, _, _, _, _)
OldQueueLoop(cache, CellState, Confirmed, queue, keys, cells) ==
    IF queue = <<>> THEN [Reached |-> FALSE, Visited |-> cells]
    ELSE IF GetCellIsAnchor(cache, Head(queue)[1]) \/ Head(queue)[1] \in Confirmed
         THEN [Reached |-> TRUE, Visited |-> cells]
         ELSE LET step == OldDirLoop(cache, CellState, Head(queue), 0, keys, cells, <<>>)
              IN OldQueueLoop(cache, CellState, Confirmed,
                              Tail(queue) \o step.Enqueued, step.Keys, step.Cells)

PerformSubCellBFSOld(cache, CellState, StartCellId, ConfirmedConnected) ==
    LET StartSubCell == FindFirstAliveSubCell(StartCellId, CellState)
    IN IF StartSubCell < 0
       THEN [Reached |-> FALSE, Visited |-> <<>>]
       ELSE OldQueueLoop(cache, CellState, ConfirmedConnected,
                         << <<StartCellId, StartSubCell>> >>,
                         {MakeKey(StartCellId, StartSubCell)}, <<StartCellId>>)

RECURSIVE CandidateLoopOld(_, _, _, _, _, _)
CandidateLoopOld(cache, CellState, cands, Confirmed, Processed, Disconnected) ==
    IF cands = <<>> THEN Disconnected
    ELSE IF Head(cands) \in Processed
         THEN CandidateLoopOld(cache, CellState, Tail(cands),
                               Confirmed, Processed, Disconnected)
         ELSE LET r == PerformSubCellBFSOld(cache, CellState, Head(cands), Confirmed)
              IN CandidateLoopOld(cache, CellState, Tail(cands),
                                  IF r.Reached THEN Confirmed \cup Range(r.Visited)
                                               ELSE Confirmed,
                                  Processed \cup Range(r.Visited),
                                  IF r.Reached THEN Disconnected
                                               ELSE AddAllUnique(Disconnected, r.Visited))

FindDisconnectedCellsWithSubCellsOld(cache, CellState, AffectedCells) ==
    CandidateLoopOld(cache, CellState,
                     CollectCandidates(cache, CellState, AffectedCells, <<>>),
                     {}, {}, <<>>)

\* ---- the specification ----
\* dead-sub-cell sets of a damaged cell: one sub-cell left, none left, or only
\* the two sub-cells 0 and 7 that share no face
SubMasks ==
    {SubCellIds \ {k} : k \in SubCellIds} \cup {SubCellIds, SubCellIds \ {0, 7}}

\* the cells that may carry damage: 0-1 share an X face, 1-4 a Y face
DamageCells == {0, 1, 4}

\* the AffectedCells arrays handed in
AffectedLists == {<<1>>, <<2>>, <<2, 1>>}

SubCaches == { [Exists |-> CellIds, Anchor |-> {0}],
               [Exists |-> {0, 1, 2}, Anchor |-> {0}] }

InitSub ==
    /\ IdleEvent
    /\ IdleCluster
    /\ IdleKey
    /\ IdleBatch
    /\ IdleGraph
    /\ IdleEquiv
    /\ IdleSis
    /\ IdleLock
    /\ IdleCalc
    /\ IdleQuant
    /\ IdleProbe
    /\ scCache \in SubCaches
    /\ scDestroyed \in {{}, {4} \cap scCache.Exists}
    /\ \E D \in SUBSET ((DamageCells \cap scCache.Exists) \ scDestroyed) :
          /\ Cardinality(D) <= MaxDamaged
          /\ \E m \in [D -> SubMasks] :
                scDead = [c \in CellIds |-> IF c \in D THEN m[c] ELSE {}]
    /\ scAffected \in AffectedLists
    /\ scResult = <<>>
    /\ scFull = <<>>
    /\ scPc = "input"

\* Disconnected = FindDisconnectedCellsWithSubCells(Cache, CellState, AffectedCells)
SubFindStep ==
    /\ scPc = "input"
    /\ scResult' = FindDisconnectedCellsWithSubCells(
                       scCache, MakeCellState(scDestroyed, scDead), scAffected)
    /\ scPc' = "sub"
    /\ UNCHANGED <<scCache, scDestroyed, scDead, scAffected, scFull>>
    /\ UNCHANGED <<bpVars, gVars, eqVars, sisVars, lkVars, cdVars, qVars, pVars,
                 evVars, bcVars, kVars>>

\* the same call answered by the older sub-cell-by-sub-cell search
OldFindStep ==
    /\ scPc = "sub"
    /\ scFull' = FindDisconnectedCellsWithSubCellsOld(
                     scCache, MakeCellState(scDestroyed, scDead), scAffected)
    /\ scPc' = "full"
    /\ UNCHANGED <<scCache, scDestroyed, scDead, scAffected, scResult>>
    /\ UNCHANGED <<bpVars, gVars, eqVars, sisVars, lkVars, cdVars, qVars, pVars,
                 evVars, bcVars, kVars>>

NextSub == SubFindStep \/ OldFindStep

SpecSub == InitSub /\ [][NextSub]_vars

\* the state of the call as the search sees it
scState == MakeCellState(scDestroyed, scDead)

\* where the sub-cell touching sub-cell a in direction Dir lies in the grid of
\* the neighbour cell: the neighbour is one cell = two sub-cells further, the
\* touching sub-cell one sub-cell further
MateCoord(a, Dir) ==
    [k \in 1..3 |-> SubCellIdToCoord(a)[k] + DIRECTION_OFFSETS[Dir + 1][k]
                        - 2 * DIRECTION_OFFSETS[Dir + 1][k]]

\* a sub-cell of A and the sub-cell of B it touches are both alive
LiveFace(CellState, A, B, Dir) ==
    \E a \in SubCellIds :
        /\ \A k \in 1..3 : MateCoord(a, Dir)[k] \in 0..1
        /\ IsSubCellAlive(CellState, A, a)
        /\ IsSubCellAlive(CellState, B, SubCellCoordToId(MateCoord(a, Dir)[1],
                                         MateCoord(a, Dir)[2], MateCoord(a, Dir)[3]))

\* B is the grid neighbour of A in direction Dir, exists, is not destroyed and
\* shares a live face with A
CanCross(cache, CellState, A, B, Dir) ==
    /\ IsValidCoord(NeighborCoord(A, Dir))
    /\ B = CoordToId(NeighborCoord(A, Dir)[1], NeighborCoord(A, Dir)[2],
                     NeighborCoord(A, Dir)[3])
    /\ GetCellExists(cache, B)
    /\ B \notin CellState.DestroyedCells
    /\ LiveFace(CellState, A, B, Dir)

CrossLinks(cache, CellState) ==
    [a \in CellIds |-> {b \in CellIds : \E Dir \in 0..5 : CanCross(cache, CellState, a, b, Dir)}]

\* the least set that holds S and is closed under the links
RECURSIVE LinkClosure(_, _)
LinkClosure(links, S) ==
    LET next == S \cup UNION {links[a] : a \in S}
    IN IF next = S THEN S ELSE LinkClosure(links, next)

\* C21: the boundary test of a face is true exactly when a sub-cell of A and
\* the sub-cell of B touching it are both alive (every direction, every pair
\* of cells), and a search started in any cell with a live sub-cell visits
\* exactly the cells reachable from it by steps to an existing, non-destroyed
\* grid neighbour across such a face: all of them when no anchor stops the
\* search, and with anchors it reports an anchor reached exactly when one of
\* them is an anchor.
C21_FaceCrossing ==
    scPc = "sub" =>
        \A links \in {CrossLinks(scCache, scState)} :
        /\ \A A \in CellIds, B \in CellIds, Dir \in 0..5 :
              HasConnectedBoundary(A, B, Dir, scState) <=> LiveFace(scState, A, B, Dir)
        /\ \A S \in scCache.Exists \ scDestroyed :
              \A reach \in {LinkClosure(links, {S})} :
              \A free \in {PerformSubCellBFS([scCache EXCEPT !.Anchor = {}], scState, S, {})} :
              \A r \in {PerformSubCellBFS(scCache, scState, S, {})} :
                 IF HasAliveSubCell(S, scState)
                 THEN /\ Range(free.Visited) = reach
                      /\ ~free.Reached
                      /\ Range(r.Visited) \subseteq reach
                      /\ r.Reached <=> (reach \cap scCache.Anchor # {})
                 ELSE free.Visited = <<>> /\ r.Visited = <<>> /\ ~r.Reached

\* a call on a grid where a face between two damaged cells is open and a face
\* between two cells that both have live sub-cells is closed
C21_Witness ==
    /\ scPc = "sub"
    /\ \E A \in scCache.Exists, B \in scCache.Exists, Dir \in 0..5 :
          /\ scDead[A] # {} /\ scDead[B] # {}
          /\ CanCross(scCache, scState, A, B, Dir)
    /\ \E A \in scCache.Exists, B \in scCache.Exists, Dir \in 0..5 :
          /\ HasAliveSubCell(A, scState) /\ HasAliveSubCell(B, scState)
          /\ NeighborCoord(A, Dir) = IdToCoord(B)
          /\ ~CanCross(scCache, scState, A, B, Dir)
    /\ scResult # <<>>

\* the affected cells that are not destroyed and have no live sub-cell
DeadAffected ==
    {X \in Range(scAffected) : X \notin scDestroyed /\ scDead[X] = SubCellIds}

\* the cells whose every cell-level path to a live anchor passes through X
Behind(X) ==
    LET links == NeighborSets(scCache)
    IN ((scCache.Exists \ scDestroyed) \cap AnchorReachable(links, scCache, scDestroyed))
           \ (AnchorReachable(links, scCache, scDestroyed \cup {X}) \cup {X})

\* C22 as stated: an affected cell that is not destroyed and has all 8
\* sub-cells dead is reported disconnected by FindDisconnectedCellsWithSubCells,
\* together with every cell whose only path to an anchor passes through it,
\* while FindDisconnectedCells reports all of them connected.
C22_DeadCellReported ==
    scPc = "sub" =>
        \A X \in DeadAffected :
            /\ ({X} \cup Behind(X)) \subseteq Range(scResult)
            /\ Range(FindDisconnectedCells(scCache, scDestroyed)) \cap ({X} \cup Behind(X)) = {}

\* C22: an affected cell that is not destroyed and has all 8 sub-cells dead
\* is itself never in the set FindDisconnectedCellsWithSubCells returns (no
\* search starts in it or enters it); the set holds every cell the search
\* reaches from one of its non-destroyed neighbours without meeting an anchor,
\* which are, the cells behind it being undamaged, all cells whose only path
\* to an anchor passes through it; FindDisconnectedCells reports the cell and
\* the cells behind it connected whenever the cell has a cell-level path to
\* an anchor.
C22_DeadCellCutsPaths ==
    scPc = "sub" =>
        \A X \in DeadAffected :
        \A links \in {CrossLinks(scCache, scState)} :
            /\ X \notin Range(scResult)
            /\ \A n \in Range(GetCellNeighbors(scCache, X)) \ scDestroyed :
                  \A reach \in {LinkClosure(links, {n})} :
                     (HasAliveSubCell(n, scState) /\ reach \cap scCache.Anchor = {})
                         => reach \subseteq Range(scResult)
            /\ \A c \in Behind(X) : scDead[c] = {} /\ c \in Range(scResult)
            /\ X \in AnchorReachable(NeighborSets(scCache), scCache, scDestroyed)
                  => Range(FindDisconnectedCells(scCache, scDestroyed))
                         \cap ({X} \cup Behind(X)) = {}

\* cell 1 without a live sub-cell, cells 2 and 5 behind it and reported
C22_Witness ==
    /\ scPc = "sub"
    /\ 1 \in DeadAffected
    /\ Behind(1) = {2, 5}
    /\ Range(scResult) = {2, 5}
    /\ FindDisconnectedCells(scCache, scDestroyed) = <<>>

\* C23 as stated: for every combination of dead sub-cells the cell-by-cell
\* search with boundary-pair checks returns the same disconnected cells as
\* the search that walks sub-cell by sub-cell, inside cells and across faces.
C23_SameAsSubCellSearch ==
    scPc = "full" => Range(scResult) = Range(scFull)

(***************************************************************************)
(* The result and the cell state a batch leaves behind                     *)
(* (specification Spec)                                                    *)
(***************************************************************************)
\* the cells of the grid, not destroyed yet, that a pending shape destroys
BatchHits ==
    {c \in Cache.Exists \ DestroyedCells :
        \E i \in 1..Len(PendingDestructions) :
            IsCellDestroyed(Cache, c, PendingDestructions[i], MeshTransform)}

\* the cells left without a path to a live anchor once the hits are destroyed
BatchCut ==
    (Cache.Exists \ (DestroyedCells \cup BatchHits))
        \ AnchorReachable(NeighborSets(Cache), Cache, DestroyedCells \cup BatchHits)

\* C24: after a ProcessBatch that newly destroys a cell, LastBatchResult holds
\* the impacts that were queued, in queue order; its DestroyedCellIds are
\* exactly the cells the batch's shapes newly destroyed plus the cells the
\* batch cut off, each once; its debris descriptors are one per detached
\* group of this batch, with fresh consecutive IDs, and together hold exactly
\* the cells this batch cut off - nothing of an earlier batch.
C24_BatchResult ==
    [][ (call'.batches = 1 /\ call'.did.ContextSet /\ call'.did.Newly # <<>>) =>
          \A hits \in {BatchHits} : \A cut \in {BatchCut} :
          \A ids \in {LastBatchResult'.DestroyedCellIds} :
          \A debris \in {LastBatchResult'.DetachedDebris} :
             /\ LastBatchResult'.DestructionInputs = PendingDestructions
             /\ hits # {}
             /\ Range(ids) = hits \cup cut
             /\ Len(ids) = Cardinality(Range(ids))
             /\ Len(debris) = Len(call'.did.Groups)
             /\ \A g \in 1..Len(debris) :
                   /\ debris[g].CellIds = call'.did.Groups[g]
                   /\ debris[g].DebrisId = DebrisIdCounter + g
                   /\ Range(debris[g].CellIds) \subseteq cut
                   /\ \A h \in 1..Len(debris) :
                         g # h => Range(debris[g].CellIds) \cap Range(debris[h].CellIds) = {}
             /\ UNION {Range(debris[g].CellIds) : g \in 1..Len(debris)} = cut
      ]_vars

\* a batch that destroyed a cell and cut nothing off, after an earlier batch
\* that made debris: the result lists the new cell and no debris
C24_Witness ==
    /\ BatchRan
    /\ call.did.Newly # <<>>
    /\ DebrisIdCounter >= 1
    /\ LastBatchResult.DetachedDebris = <<>>
    /\ Len(LastBatchResult.DestroyedCellIds) = 1

\* the cells named by the debris descriptors of a batch result
DebrisCells(event) ==
    UNION {Range(event.DetachedDebris[g].CellIds) : g \in 1..Len(event.DetachedDebris)}

\* C29: no call of the processor takes a cell out of DestroyedCells; a batch
\* that newly destroys a cell puts every cell of its debris descriptors into
\* DestroyedCells, none of which was in it before - so a cell of an earlier
\* descriptor, being destroyed already, is never in a later one - and names no
\* cell in two descriptors; after such a batch every existing cell outside
\* DestroyedCells has a path to a non-destroyed anchor.
C29_DestroyedGrowsDebrisOnce ==
    [][ /\ DestroyedCells \subseteq DestroyedCells'
        /\ (call'.batches = 1 /\ call'.did.ContextSet /\ call'.did.Newly # <<>>) =>
              \A debris \in {LastBatchResult'.DetachedDebris} :
                 /\ DebrisCells(LastBatchResult') \subseteq DestroyedCells' \ DestroyedCells
                 /\ \A g \in 1..Len(debris) :
                       /\ Len(debris[g].CellIds) = Cardinality(Range(debris[g].CellIds))
                       /\ \A h \in 1..Len(debris) :
                             g # h => Range(debris[g].CellIds) \cap Range(debris[h].CellIds) = {}
                 /\ (Cache.Exists \ DestroyedCells')
                        \subseteq AnchorReachable(NeighborSets(Cache), Cache, DestroyedCells')
      ]_vars

\* the second destroying batch of a run: it made debris, cells destroyed by
\* the batch before are still destroyed, and anchored cells are left standing
C29_Witness ==
    /\ BatchRan
    /\ LastBatchResult.DetachedDebris # <<>>
    /\ DestroyedCells \ Range(LastBatchResult.DestroyedCellIds) # {}
    /\ Cache.Exists \ DestroyedCells # {}
    /\ DebrisCells(LastBatchResult) \subseteq DestroyedCells

(***************************************************************************)
(* Cell IDs outside the grid and the detached groups of the structural     *)
(* integrity system (specification SpecSIS)                                *)
(***************************************************************************)
\* the ID lies outside [0, cell count)
OutOfRange(id) == ~(id >= 0 /\ id < Len(CellStates))

\* C25: for a cell ID outside [0, cell count) GetCellState returns Destroyed,
\* IsCellConnectedToAnchor and IsAnchor return false and GetCellWorldPosition
\* returns the zero vector; DestroyCells, SetAnchor, SetAnchors and
\* ForceSetDestroyedCells called with such IDs only leave the destroyed set
\* and the anchor set as they were, and DestroyCells reports no newly
\* destroyed cell.
C25_OutOfRangeIds ==
    [][ /\ (sisCall'.op = "GetCellState" /\ OutOfRange(sisCall'.id))
              => sisCall'.ret = "Destroyed"
        /\ (sisCall'.op \in {"IsCellConnectedToAnchor", "IsAnchor"} /\ OutOfRange(sisCall'.id))
              => sisCall'.ret = FALSE
        /\ (sisCall'.op = "GetCellWorldPosition" /\ OutOfRange(sisCall'.id))
              => sisCall'.ret = <<0, 0, 0>>
        /\ (sisCall'.op = "SetAnchor" /\ OutOfRange(sisCall'.id))
              => UNCHANGED <<AnchorCellIds, DestroyedCellIds>>
        /\ (/\ sisCall'.op \in {"DestroyCells", "ForceSetDestroyedCells", "SetAnchors"}
            /\ \A k \in 1..Len(sisCall'.id) : OutOfRange(sisCall'.id[k]))
              => /\ UNCHANGED <<AnchorCellIds, DestroyedCellIds>>
                 /\ sisCall'.op = "DestroyCells"
                       => sisCall'.ret.NewlyDestroyedCellIds = <<>>
      ]_vars

\* ForceSetDestroyedCells was handed the one ID 4 on the initialized 4-cell
\* structure, which has an anchor and a destroyed cell
C25_Witness ==
    /\ bInitialized
    /\ sisCall.op = "ForceSetDestroyedCells"
    /\ sisCall.id = <<4>>
    /\ Len(CellStates) = 4
    /\ AnchorCellIds # {}
    /\ DestroyedCellIds # {}
    /\ 4 \notin DestroyedCellIds

\* ---- detached groups ----
\* the groups returned by the last call, when it was a call that returns groups
ReturnedGroups ==
    IF sisCall.op = "DestroyCells" THEN sisCall.ret.DetachedGroups
    ELSE IF sisCall.op = "ForceSetDestroyedCells" THEN sisCall.ret
    ELSE <<>>

\* the triangle IDs stored for a cell; a cell past the end of the table has none
TrianglesOf(c) ==
    IF c >= 0 /\ c < Len(CellTriangles) THEN Range(CellTriangles[c + 1]) ELSE {}

\* C28: every group returned by DestroyCells or ForceSetDestroyedCells holds
\* only cells that are not destroyed and not reachable from a live anchor,
\* lists them in ascending order, has ApproximateMass equal to the number of
\* its cells, and has a strictly ascending TriangleIds list equal to the union
\* of its cells' triangle IDs; the groups of one call are pairwise disjoint.
C28_DetachedGroupsWellFormed ==
    LET groups == ReturnedGroups
    IN /\ \A k \in 1..Len(groups) :
             LET g == groups[k]
             IN /\ Range(g.CellIds) \subseteq (0..(Len(CellStates) - 1))
                /\ Range(g.CellIds) \cap DestroyedCellIds = {}
                /\ Range(g.CellIds) \cap SisReachable = {}
                /\ IsStrictlyAscending(g.CellIds)
                /\ g.ApproximateMass = Len(g.CellIds)
                /\ IsStrictlyAscending(g.TriangleIds)
                /\ Range(g.TriangleIds) = UNION {TrianglesOf(c) : c \in Range(g.CellIds)}
       /\ \A j, k \in 1..Len(groups) :
             j # k => Range(groups[j].CellIds) \cap Range(groups[k].CellIds) = {}

\* a DestroyCells call that cut cells 1, 2 and 3 off as one group: the search
\* met them as 1, 3, 2 and their triangle lists repeat 2 and 3
C28_Witness ==
    /\ sisCall.op = "DestroyCells"
    /\ Len(sisCall.ret.DetachedGroups) = 1
    /\ sisCall.ret.DetachedGroups[1].CellIds = <<1, 2, 3>>
    /\ sisCall.ret.DetachedGroups[1].TriangleIds = <<1, 2, 3, 4>>
    /\ sisCall.ret.DetachedGroups[1].ApproximateMass = 3
    /\ 0 \in DestroyedCellIds

\* C30: cells cut off from the anchors are marked Detached and stay out of the
\* destroyed set; each later DestroyCells call that newly destroys a cell, and
\* each ForceSetDestroyedCells call, returns every such cell that is still cut
\* off and not destroyed in a detached group again, under group IDs not yet
\* handed out.
C30_DetachedReturnedAgain ==
    [][ (\/ sisCall'.op = "DestroyCells" /\ sisCall'.ret.NewlyDestroyedCellIds # <<>>
         \/ sisCall'.op = "ForceSetDestroyedCells")
        => LET groups == IF sisCall'.op = "DestroyCells"
                         THEN sisCall'.ret.DetachedGroups ELSE sisCall'.ret
               returned == UNION {Range(groups[k].CellIds) : k \in 1..Len(groups)}
           IN /\ \A c \in 0..(Len(CellStates) - 1) :
                    (/\ CellStates[c + 1] = "Detached"
                     /\ c \notin SisReachable
                     /\ c \notin DestroyedCellIds')
                       => c \in returned
              /\ \A c \in returned :
                    c \notin DestroyedCellIds' /\ CellStates'[c + 1] = "Detached"
              /\ \A k \in 1..Len(groups) :
                    groups[k].GroupId >= NextGroupId /\ groups[k].GroupId < NextGroupId'
              /\ DestroyedCellIds' \ DestroyedCellIds \subseteq Range(sisCall'.id)
      ]_vars

\* cells 2 and 3, cut off by an earlier call that used group IDs 0 and 1, come
\* back from ForceSetDestroyedCells as groups 2 and 3
C30_Witness ==
    /\ sisCall.op = "ForceSetDestroyedCells"
    /\ Len(sisCall.ret) = 2
    /\ sisCall.ret[1].GroupId = 2 /\ sisCall.ret[1].CellIds = <<2>>
    /\ sisCall.ret[2].GroupId = 3 /\ sisCall.ret[2].CellIds = <<3>>
    /\ CellStates[3] = "Detached" /\ CellStates[4] = "Detached"
    /\ DestroyedCellIds = {1}
    /\ AnchorCellIds = {0}

(***************************************************************************)
(* One quantized input asked ContainsPoint and IntersectsOBB               *)
(***************************************************************************)
\* a shape with the fields a line does not use left at zero
LineShape(Center, EndPoint, LineThickness) ==
    [Type |-> "Line", Center |-> Center, Radius |-> 0, BoxExtent |-> <<0, 0, 0>>,
     Rotation |-> <<0, 0, 0>>, EndPoint |-> EndPoint, LineThickness |-> LineThickness]

\* lines without length (the second only once quantized, the third without
\* thickness as well), a line along X, a slanted line, a sphere and a box
ProbeShapes ==
    { LineShape(<<500, 500, 500>>, <<500, 500, 500>>, 100),
      LineShape(<<500, 500, 500>>, <<502, 499, 500>>, 100),
      LineShape(<<500, 500, 500>>, <<500, 500, 500>>, 0),
      LineShape(<<500, 500, 500>>, <<1500, 500, 500>>, 100),
      LineShape(<<500, 500, 500>>, <<1500, 1000, 500>>, 50),
      [Type |-> "Sphere", Center |-> <<500, 500, 500>>, Radius |-> 120,
       BoxExtent |-> <<0, 0, 0>>,
       Rotation |-> <<0, 0, 0>>, EndPoint |-> <<0, 0, 0>>,
       LineThickness |-> 0],
      [Type |-> "Box", Center |-> <<500, 500, 500>>, Radius |-> 0,
       BoxExtent |-> <<100, 200, 100>>,
       Rotation |-> <<0, 0, 0>>, EndPoint |-> <<0, 0, 0>>,
       LineThickness |-> 0] }

\* points and boxes in tenths of a unit
ProbePoints == {<<x, y, 50>> : x \in {40, 50, 60, 100, 160, 170}, y \in {50, 60, 61}}

ProbeBoxes ==
    {[Center |-> c, HalfExtents |-> h] :
        c \in {<<50, 50, 50>>, <<75, 50, 50>>, <<100, 80, 50>>, <<300, 300, 300>>},
        h \in {<<10, 10, 10>>, <<15, 15, 15>>}}

InitProbe ==
    /\ IdleEvent
    /\ IdleCluster
    /\ IdleKey
    /\ IdleBatch
    /\ IdleGraph
    /\ IdleEquiv
    /\ IdleSis
    /\ IdleLock
    /\ IdleCalc
    /\ IdleSub
    /\ IdleQuant
    /\ pInput \in {FromDestructionShape(sh) : sh \in ProbeShapes}
    /\ pPoint \in ProbePoints
    /\ pBox \in ProbeBoxes
    /\ pContains = FALSE
    /\ pIntersects = FALSE
    /\ pPc = "input"

\* pInput.ContainsPoint(pPoint)
ContainsStep ==
    /\ pPc = "input"
    /\ pContains' = ContainsPoint(pInput, pPoint)
    /\ pPc' = "contains"
    /\ UNCHANGED <<pInput, pPoint, pBox, pIntersects>>
    /\ UNCHANGED <<bpVars, gVars, eqVars, sisVars, lkVars, cdVars, scVars, qVars,
                 evVars, bcVars, kVars>>

\* pInput.IntersectsOBB(pBox)
IntersectsStep ==
    /\ pPc = "contains"
    /\ pIntersects' = IntersectsOBB(pInput, pBox)
    /\ pPc' = "done"
    /\ UNCHANGED <<pInput, pPoint, pBox, pContains>>
    /\ UNCHANGED <<bpVars, gVars, eqVars, sisVars, lkVars, cdVars, scVars, qVars,
                 evVars, bcVars, kVars>>

NextProbe == ContainsStep \/ IntersectsStep

SpecProbe == InitProbe /\ [][NextProbe]_vars

\* the input is a line whose end point is its centre
ZeroLengthLine == pInput.Type = "Line" /\ pInput.EndPointMM = pInput.CenterMM

\* C26 as stated: a line without length is reported to contain no point and
\* to intersect no box.
C26_DegenerateNeverHits ==
    ZeroLengthLine =>
        /\ pPc \in {"contains", "done"} => ~pContains
        /\ pPc = "done" => ~pIntersects

\* on every axis some coordinate lies both within the line thickness of the
\* centre and within the box
CubeMeetsBox ==
    \A i \in 1..3 :
        \E q \in (pBox.Center[i] - pBox.HalfExtents[i])..(pBox.Center[i] + pBox.HalfExtents[i]) :
            Abs(q - pInput.CenterMM[i]) <= pInput.LineThicknessMM

\* C26: a line without length contains no point, and intersects a box exactly
\* when its centre lies within the line thickness of the box on each axis.
C26_DegenerateLineIsPoint ==
    ZeroLengthLine =>
        /\ pPc \in {"contains", "done"} => ~pContains
        /\ pPc = "done" => (pIntersects <=> CubeMeetsBox)

\* the centre of a line without length: not contained, yet the box around it
\* is reported hit
C26_Witness ==
    /\ pPc = "done"
    /\ ZeroLengthLine
    /\ pPoint = pInput.CenterMM
    /\ pBox.Center = pInput.CenterMM
    /\ ~pContains
    /\ pIntersects

(***************************************************************************)
(* One shape quantized, converted back and quantized again                 *)
(***************************************************************************)
MaxCoord == 16         \* largest coordinate, in 0.01 units (0.001 degrees)

QuantVals == (0 - MaxCoord)..MaxCoord

InitQuant ==
    /\ IdleEvent
    /\ IdleCluster
    /\ IdleKey
    /\ IdleBatch
    /\ IdleGraph
    /\ IdleEquiv
    /\ IdleSis
    /\ IdleLock
    /\ IdleCalc
    /\ IdleSub
    /\ IdleProbe
    /\ \E ty \in {"Sphere", "Box", "Line"} : \E a, b \in QuantVals :
          qShape = [Type |-> ty, Center |-> <<a, b, 0 - a>>, Radius |-> Abs(b),
                    BoxExtent |-> <<Abs(a), Abs(b), 5>>, Rotation |-> <<b, a, 0 - b>>,
                    EndPoint |-> <<b, 0 - a, a>>, LineThickness |-> Abs(a)]
    /\ qQuant = <<>>
    /\ qBack = <<>>
    /\ qAgain = <<>>
    /\ qPc = "input"

\* qQuant = FQuantizedDestructionInput::FromDestructionShape(qShape)
QuantizeStep ==
    /\ qPc = "input"
    /\ qQuant' = FromDestructionShape(qShape)
    /\ qPc' = "quantized"
    /\ UNCHANGED <<qShape, qBack, qAgain>>
    /\ UNCHANGED <<bpVars, gVars, eqVars, sisVars, lkVars, cdVars, scVars, pVars,
                 evVars, bcVars, kVars>>

\* qBack = qQuant.ToDestructionShape()
BackStep ==
    /\ qPc = "quantized"
    /\ qBack' = ToDestructionShape(qQuant)
    /\ qPc' = "back"
    /\ UNCHANGED <<qShape, qQuant, qAgain>>
    /\ UNCHANGED <<bpVars, gVars, eqVars, sisVars, lkVars, cdVars, scVars, pVars,
                 evVars, bcVars, kVars>>

\* qAgain = FQuantizedDestructionInput::FromDestructionShape(qBack)
AgainStep ==
    /\ qPc = "back"
    /\ qAgain' = FromDestructionShape(qBack)
    /\ qPc' = "again"
    /\ UNCHANGED <<qShape, qQuant, qBack>>
    /\ UNCHANGED <<bpVars, gVars, eqVars, sisVars, lkVars, cdVars, scVars, pVars,
                 evVars, bcVars, kVars>>

NextQuant == QuantizeStep \/ BackStep \/ AgainStep

SpecQuant == InitQuant /\ [][NextQuant]_vars

\* two lengths (0.01 units) or angles (0.001 degrees) differ by at most half
\* a quantization step
WithinHalfStep(x, y) == Abs(x - y) <= 5

VecWithinHalfStep(p, q) == \A i \in 1..3 : WithinHalfStep(p[i], q[i])

\* C27: the shape converted back from its quantized form has the type of the
\* original and is within 0.05 units of it on centre, radius, box extent, end
\* point and thickness and within 0.005 degrees on rotation; quantizing it
\* again gives the quantized integers of the first time.
C27_RoundTrip ==
    /\ qPc \in {"back", "again"} =>
          /\ qBack.Type = qShape.Type
          /\ VecWithinHalfStep(qBack.Center, qShape.Center)
          /\ WithinHalfStep(qBack.Radius, qShape.Radius)
          /\ VecWithinHalfStep(qBack.BoxExtent, qShape.BoxExtent)
          /\ VecWithinHalfStep(qBack.EndPoint, qShape.EndPoint)
          /\ WithinHalfStep(qBack.LineThickness, qShape.LineThickness)
          /\ VecWithinHalfStep(qBack.Rotation, qShape.Rotation)
    /\ qPc = "again" => qAgain = qQuant

\* a shape with coordinates half way between two steps on either side of
\* zero: 0.05 goes up to 0.1 and -0.05 up to 0
C27_Witness ==
    /\ qPc = "again"
    /\ qShape.Center = <<5, 0 - 5, 0 - 5>>
    /\ qBack.Center = <<10, 0, 0>>
    /\ qShape.Rotation[1] = 0 - 5 /\ qBack.Rotation[1] = 0
    /\ qAgain = qQuant

\* ---- the destroyed set and the cell states ----
\* the cells whose state is Destroyed
DestroyedStates == {c \in 0..(Len(CellStates) - 1) : CellStates[c + 1] = "Destroyed"}

\* C31: in every reachable state the cells in state Destroyed are exactly the
\* cells of DestroyedCellIds, and a step other than Initialize and Reset
\* removes no cell from DestroyedCellIds and leaves every Destroyed cell
\* Destroyed.
C31_DestroyedStateIsSet ==
    /\ [](DestroyedStates = DestroyedCellIds)
    /\ [][ sisCall'.op \notin {"Initialize", "Reset"}
            => /\ DestroyedCellIds \subseteq DestroyedCellIds'
               /\ Len(CellStates') = Len(CellStates)
               /\ \A c \in DestroyedStates : CellStates'[c + 1] = "Destroyed"
       ]_vars

\* ForceSetDestroyedCells([1]) on a structure where cell 0 was destroyed
\* before: both are Destroyed and in the set, and another cell is Detached
C31_Witness ==
    /\ bInitialized
    /\ sisCall.op = "ForceSetDestroyedCells"
    /\ sisCall.id = <<1>>
    /\ DestroyedCellIds = {0, 1}
    /\ CellStates[1] = "Destroyed" /\ CellStates[2] = "Destroyed"
    /\ CellStates[3] = "Detached"

(***************************************************************************)
(* Either system, run on its own: the batch processor on one of its grids  *)
(* or the Structural Integrity System                                      *)
(***************************************************************************)
InitSystems == InitBatch \/ InitSIS

NextSystems ==
    \/ Cache # EmptyCache /\ Next
    \/ Cache = EmptyCache /\ NextSIS

SpecSystems == InitSystems /\ [][NextSystems]_vars

\* C32: with no live anchor left, a DestroyCells call that newly destroys a
\* cell returns every cell that is not destroyed in its detached groups, and
\* a batch that newly destroys a cell leaves every existing cell of the grid in
\* DestroyedCells.
C32_NoLiveAnchor ==
    [][ /\ (/\ sisCall'.op = "DestroyCells"
             /\ sisCall'.ret.NewlyDestroyedCellIds # <<>>
             /\ AnchorCellIds' \ DestroyedCellIds' = {})
              => \A groups \in {sisCall'.ret.DetachedGroups} :
                    UNION {Range(groups[k].CellIds) : k \in 1..Len(groups)}
                        = (0..(Len(CellStates') - 1)) \ DestroyedCellIds'
        /\ (/\ call'.batches = 1 /\ call'.did.ContextSet /\ call'.did.Newly # <<>>
             /\ (Cache.Anchor \cap Cache.Exists) \ (DestroyedCells \cup BatchHits) = {})
              => /\ Cache.Exists \subseteq DestroyedCells'
                 /\ Range(LastBatchResult'.DestroyedCellIds) = Cache.Exists \ DestroyedCells
      ]_vars

\* DestroyCells destroyed the only anchor, cell 0: cells 1, 2 and 3 survive
\* and all three come back in a detached group
C32_Witness ==
    /\ sisCall.op = "DestroyCells"
    /\ sisCall.ret.NewlyDestroyedCellIds = <<0>>
    /\ AnchorCellIds = {0}
    /\ DestroyedCellIds = {0}
    /\ Len(sisCall.ret.DetachedGroups) = 1
    /\ sisCall.ret.DetachedGroups[1].CellIds = <<1, 2, 3>>

\* ---- what overwrites LastBatchResult ----
\* C33: LastBatchResult changes only in a ProcessBatch run with the context
\* set; a batch dropped for missing context leaves it as it was, and Tick
\* returns true all the same; a batch with the context set that newly destroys
\* no cell replaces it by an event with the batch's inputs and empty
\* destroyed-cell and debris lists.
C33_LastResultFrame ==
    [][ /\ LastBatchResult' # LastBatchResult
              => (call'.batches = 1 /\ call'.did.ContextSet)
        /\ (call'.batches = 1 /\ ~call'.did.ContextSet)
              => /\ LastBatchResult' = LastBatchResult
                 /\ call'.op = "Tick" => call'.ret = TRUE
        /\ (call'.batches = 1 /\ call'.did.ContextSet /\ call'.did.Newly = <<>>)
              => LastBatchResult' = [ DestructionInputs |-> PendingDestructions,
                                      DestroyedCellIds  |-> <<>>,
                                      DetachedDebris    |-> <<>> ]
      ]_vars

\* a Tick that dropped its batch for missing context and returned true, with
\* the result of an earlier destroying batch still in LastBatchResult
C33_Witness ==
    /\ call.op = "Tick"
    /\ call.ret = TRUE
    /\ call.batches = 1
    /\ ~call.did.ContextSet
    /\ LastBatchResult.DestroyedCellIds # <<>>
    /\ LastBatchResult.DestructionInputs # <<>>
    /\ PendingDestructions = <<>>

\* ---- debris IDs ----
\* the debris descriptors made by the step: those of the event written by a
\* batch that ran with the context set
NewDebris ==
    IF call'.batches = 1 /\ call'.did.ContextSet
    THEN LastBatchResult'.DetachedDebris ELSE <<>>

\* C34: the debris counter starts at 0 and every debris ID in the last result
\* lies in 1..DebrisIdCounter; the IDs a batch issues are above the counter as
\* it was, strictly increasing in the order of the descriptors, the first one
\* ever issued is 1, and the counter ends at the last ID issued; a step that
\* makes no debris - SetContext, QueueDestruction, a Tick or FlushQueue without
\* a batch, a dropped batch, a batch without debris - leaves the counter alone.
C34_DebrisIdsIncrease ==
    /\ DebrisIdCounter = 0
    /\ [](\A g \in 1..Len(LastBatchResult.DetachedDebris) :
             LastBatchResult.DetachedDebris[g].DebrisId \in 1..DebrisIdCounter)
    /\ [][ \A new \in {NewDebris} :
             /\ \A g \in 1..Len(new) : new[g].DebrisId > DebrisIdCounter
             /\ \A g, h \in 1..Len(new) : g < h => new[g].DebrisId < new[h].DebrisId
             /\ (new # <<>> /\ DebrisIdCounter = 0) => new[1].DebrisId = 1
             /\ DebrisIdCounter' = IF new = <<>> THEN DebrisIdCounter
                                    ELSE new[Len(new)].DebrisId
       ]_vars

\* a later batch made debris after an earlier one had: its first ID is above 1
C34_Witness ==
    /\ BatchRan
    /\ LastBatchResult.DetachedDebris # <<>>
    /\ LastBatchResult.DetachedDebris[1].DebrisId > 1
    /\ DebrisIdCounter = LastBatchResult.DetachedDebris[Len(LastBatchResult.DetachedDebris)].DebrisId

\* ---- ForceSetDestroyedCells ----
\* C35: ForceSetDestroyedCells leaves in DestroyedCellIds exactly the cells
\* that were in it plus the valid IDs of its argument, and whenever the
\* neighbour table is not empty it leaves the cache valid and equal to the set
\* of cells reachable from a live anchor - also when the argument adds no
\* cell.
C35_ForceIsAdditive ==
    /\ [][ sisCall'.op = "ForceSetDestroyedCells"
            => DestroyedCellIds' =
                  DestroyedCellIds \cup {c \in Range(sisCall'.id) : ~OutOfRange(c)}
       ]_vars
    /\ [](sisCall.op = "ForceSetDestroyedCells"
            => /\ {c \in Range(sisCall.id) : ~OutOfRange(c)} \subseteq DestroyedCellIds
               /\ Len(CellNeighbors) > 0
                     => /\ bCacheValid
                        /\ ConnectedToAnchorCache = SisReachable)

\* ForceSetDestroyedCells with an empty argument, after cell 1 was destroyed
\* and an anchor was then set on cell 0: nothing is added, cell 1 stays
\* destroyed, the cache is valid again and holds the anchor
C35_Witness ==
    /\ sisCall.op = "ForceSetDestroyedCells"
    /\ sisCall.id = <<>>
    /\ DestroyedCellIds = {1}
    /\ AnchorCellIds = {0}
    /\ bCacheValid
    /\ ConnectedToAnchorCache = {0}
    /\ Len(sisCall.ret) = 2

(***************************************************************************)
(* The cell IDs of a batch as FBatchedDestructionEvent keeps them          *)
(***************************************************************************)
MaxEventIds == 2       \* longest NewlyDestroyed list and longest detached group

\* int32 cell IDs around the ends of the int16 range
EventCellIds == {0, 32767, 32768, 65535, 65536, 98304}

EventIdLists == UNION {[1..n -> EventCellIds] : n \in 0..MaxEventIds}

\* Phase 5 of ProcessBatch, cell IDs only: every ID goes through (int16)
StoreCellIds(newly, group) ==
    [ DestroyedCellIds |-> [i \in 1..Len(newly) |-> ToInt16(newly[i])]
                              \o [i \in 1..Len(group) |-> ToInt16(group[i])],
      DetachedDebris   |-> IF group = <<>> THEN <<>>
                           ELSE << [CellIds |-> [i \in 1..Len(group) |->
                                                    ToInt16(group[i])]] >> ]

InitEvent ==
    /\ IdleBatch
    /\ IdleGraph
    /\ IdleEquiv
    /\ IdleSis
    /\ IdleLock
    /\ IdleCalc
    /\ IdleSub
    /\ IdleQuant
    /\ IdleProbe
    /\ IdleCluster
    /\ IdleKey
    /\ evNewly \in EventIdLists
    /\ evGroup \in EventIdLists
    /\ evEvent = <<>>
    /\ evPc = "input"

\* the event of a batch that newly destroyed evNewly and detached evGroup
StoreStep ==
    /\ evPc = "input"
    /\ evEvent' = StoreCellIds(evNewly, evGroup)
    /\ evPc' = "done"
    /\ UNCHANGED <<evNewly, evGroup>>
    /\ UNCHANGED <<bpVars, gVars, eqVars, sisVars, lkVars, cdVars, scVars, qVars, pVars,
                   bcVars, kVars>>

NextEvent == StoreStep

SpecEvent == InitEvent /\ [][NextEvent]_vars

\* what the claim says is stored for the real cell ID id
StoredAsClaimed(id, stored) ==
    /\ stored \in -32768..32767
    /\ id \in 0..32767 => stored = id
    /\ id >= 32768 => /\ (id - stored) % 65536 = 0
                      /\ stored # id

\* C36: every cell ID of the batched event is the real ID cast to a signed 16-bit
\* integer: an ID in 0..32767 is stored unchanged in DestroyedCellIds and in the debris
\* CellIds; an ID of 32768 or more is stored as its value modulo 2^16 read as signed
\* and so differs from the real ID.
C36_StoredAsInt16 ==
    evPc = "done" =>
        /\ Len(evEvent.DestroyedCellIds) = Len(evNewly) + Len(evGroup)
        /\ \A i \in 1..Len(evNewly) :
              StoredAsClaimed(evNewly[i], evEvent.DestroyedCellIds[i])
        /\ \A i \in 1..Len(evGroup) :
              /\ StoredAsClaimed(evGroup[i], evEvent.DestroyedCellIds[Len(evNewly) + i])
              /\ StoredAsClaimed(evGroup[i], evEvent.DetachedDebris[1].CellIds[i])

\* cell 32768 newly destroyed is stored as -32768, cell 65535 of a group as -1
C36_Witness ==
    /\ evPc = "done"
    /\ evNewly = <<32767, 32768>>
    /\ evGroup = <<65535>>
    /\ evEvent.DestroyedCellIds = <<32767, -32768, -1>>
    /\ evEvent.DetachedDebris[1].CellIds = <<-1>>

(***************************************************************************)
(* The visited keys of the sub-cell search                                 *)
(***************************************************************************)
\* cell IDs and sub-cell IDs on both sides of 65536
KeyCellIds == {0, 1, 255, 32768, 65535, 65536, 65537}

KeySubCellIds == {0, 1, 256, 65535, 65536}

KeyPairs == KeyCellIds \X KeySubCellIds

InitKey ==
    /\ IdleBatch
    /\ IdleGraph
    /\ IdleEquiv
    /\ IdleSis
    /\ IdleLock
    /\ IdleCalc
    /\ IdleSub
    /\ IdleQuant
    /\ IdleProbe
    /\ IdleEvent
    /\ IdleCluster
    /\ kFirst \in KeyPairs
    /\ kSecond \in KeyPairs
    /\ kKeys = <<>>
    /\ kPc = "input"

\* both pairs are added to VisitedSubCells
KeyStep ==
    /\ kPc = "input"
    /\ kKeys' = <<MakeKey(kFirst[1], kFirst[2]), MakeKey(kSecond[1], kSecond[2])>>
    /\ kPc' = "done"
    /\ UNCHANGED <<kFirst, kSecond>>
    /\ UNCHANGED <<bpVars, gVars, eqVars, sisVars, lkVars, cdVars, scVars, qVars, pVars,
                   evVars, bcVars>>

NextKey == KeyStep

SpecKey == InitKey /\ [][NextKey]_vars

KeyInRange(pair) == pair[1] \in 0..65535 /\ pair[2] \in 0..65535

\* C38: two distinct (cell, sub-cell) pairs with both IDs below 65536 never get the
\* same visited key.
C38_KeyInjective ==
    (kPc = "done" /\ KeyInRange(kFirst) /\ KeyInRange(kSecond) /\ kFirst # kSecond)
        => kKeys[1] # kKeys[2]

\* the largest pair of the range sets every bit of the key, sign bit included, and
\* still differs from the key of its neighbour
C38_Witness ==
    /\ kPc = "done"
    /\ kFirst = <<65535, 65535>>
    /\ kSecond = <<65535, 256>>
    /\ kKeys = <<-1, -65280>>

(***************************************************************************)
(* UBulletClusterComponent: the clustering window                          *)
(***************************************************************************)
MaxPending == 3        \* most requests registered within one window
ClusterWindowTime == 2 \* length of the window, in timer ticks

MergeDistanceThreshold == 1

\* impact points on one axis: 0 and 1 merge, 5 is on its own
ImpactPoints == {0, 1, 5}

\* values passed to Init() as InClusterCountThreshold
ClusterThresholds == {1, 2, 3}

\* FVector::Dist of the impact points of two pending requests
Dist(requests, i, j) == Abs(requests[i].ImpactPoint - requests[j].ImpactPoint)

\* the requests FUnionFind has united with those of set, directly or through others
RECURSIVE United(_, _)
United(requests, set) ==
    LET next == set \cup {j \in 1..Len(requests) :
                            \E i \in set : Dist(requests, i, j) <= MergeDistanceThreshold}
    IN IF next = set THEN set ELSE United(requests, next)

\* ClusterUF.Find(i) after the distance unions: one representative per united set
Find(requests, i) == Min(United(requests, {i}))

\* FBulletCluster::Init: the cluster starts with the request that opens it
ClusterOf(Req) == [MemberPoints |-> <<Req.ImpactPoint>>]

\* FBulletCluster::AddMember
AddMember(Cluster, Req) ==
    [Cluster EXCEPT !.MemberPoints = Append(@, Req.ImpactPoint)]

\* the grouping loop: request i opens the cluster of its root or joins it when the
\* predicted radius passes; fits holds the requests whose PredictRadius() result is
\* at most MaxClusterRadius
RECURSIVE GroupRequests(_, _, _, _)
GroupRequests(requests, fits, i, RootToCluster) ==
    IF i > Len(requests) THEN RootToCluster
    ELSE LET Root == Find(requests, i)
             at == {k \in 1..Len(RootToCluster) : RootToCluster[k].Root = Root}
         IN IF at = {}
            THEN GroupRequests(requests, fits, i + 1,
                               Append(RootToCluster,
                                      [Root |-> Root, Value |-> ClusterOf(requests[i])]))
            ELSE IF i \in fits
            THEN GroupRequests(requests, fits, i + 1,
                               [RootToCluster EXCEPT ![Min(at)].Value =
                                    AddMember(@, requests[i])])
            ELSE GroupRequests(requests, fits, i + 1, RootToCluster)

\* the clusters of a map, in the order they were added
RECURSIVE Values(_)
Values(RootToCluster) ==
    IF RootToCluster = <<>> THEN <<>>
    ELSE <<Head(RootToCluster).Value>> \o Values(Tail(RootToCluster))

\* a plausible slip: clusters below the threshold are returned as well
ProcessClustering_KeepSmall(requests, threshold, fits) ==
    IF Len(requests) < threshold THEN <<>>
    ELSE Values(GroupRequests(requests, fits, 1, <<>>))

\* UBulletClusterComponent::ProcessClustering
ProcessClustering(requests, threshold, fits) ==
    IF Len(requests) < threshold THEN <<>>
    ELSE LET Big(Cluster) == ~(Len(Cluster.MemberPoints) < threshold)
         IN SelectSeq(Values(GroupRequests(requests, fits, 1, <<>>)), Big)

\* UBulletClusterComponent::ExecuteDestruction: the clusters handed to
\* ExecuteDestructionInternal; found holds the clusters for which FindChunksInRadius
\* returns a chunk
RECURSIVE ExecuteDestruction(_, _, _, _)
ExecuteDestruction(Clusters, mesh, found, k) ==
    IF ~mesh \/ k > Len(Clusters) THEN <<>>
    ELSE (IF k \in found THEN <<Clusters[k]>> ELSE <<>>)
            \o ExecuteDestruction(Clusters, mesh, found, k + 1)

InitCluster ==
    /\ IdleBatch
    /\ IdleGraph
    /\ IdleEquiv
    /\ IdleSis
    /\ IdleLock
    /\ IdleCalc
    /\ IdleSub
    /\ IdleQuant
    /\ IdleProbe
    /\ IdleEvent
    /\ IdleKey
    /\ ClusterCountThreshold \in ClusterThresholds
    /\ PendingRequests = <<>>
    /\ bTimerActive = FALSE
    /\ ClusterTimer = 0
    /\ bcWorld \in BOOLEAN
    /\ OwnerMesh \in BOOLEAN
    /\ bcCall = [op |-> "Construct", n |-> 0, threshold |-> 0, started |-> FALSE,
                 executed |-> <<>>]

clusterFrame == <<bpVars, gVars, eqVars, sisVars, lkVars, cdVars, scVars, qVars, pVars,
                  evVars, kVars>>

\* UBulletClusterComponent::Init (the thresholds other than the count are fixed here)
ClusterInit(InClusterCountThreshold) ==
    /\ ClusterCountThreshold' = InClusterCountThreshold
    /\ bcCall' = [op |-> "Init", n |-> Len(PendingRequests),
                  threshold |-> InClusterCountThreshold, started |-> FALSE,
                  executed |-> <<>>]
    /\ UNCHANGED <<PendingRequests, bTimerActive, ClusterTimer, bcWorld, OwnerMesh>>
    /\ UNCHANGED clusterFrame

\* UBulletClusterComponent::SetOwnerMesh, and the weak pointer going stale
SetOwnerMesh(InOwnerMesh) ==
    /\ OwnerMesh' = InOwnerMesh
    /\ bcCall' = [op |-> "SetOwnerMesh", n |-> Len(PendingRequests),
                  threshold |-> ClusterCountThreshold, started |-> FALSE,
                  executed |-> <<>>]
    /\ UNCHANGED <<ClusterCountThreshold, PendingRequests, bTimerActive, ClusterTimer,
                   bcWorld>>
    /\ UNCHANGED clusterFrame

\* the component is registered with a world: GetWorld() stops returning null
RegisterWithWorld ==
    /\ ~bcWorld
    /\ bcWorld' = TRUE
    /\ bcCall' = [op |-> "RegisterWithWorld", n |-> Len(PendingRequests),
                  threshold |-> ClusterCountThreshold, started |-> FALSE,
                  executed |-> <<>>]
    /\ UNCHANGED <<ClusterCountThreshold, PendingRequests, bTimerActive, ClusterTimer,
                   OwnerMesh>>
    /\ UNCHANGED clusterFrame

\* UBulletClusterComponent::RegisterRequest
RegisterRequest(ImpactPoint) ==
    /\ Len(PendingRequests) < MaxPending
    /\ PendingRequests' = Append(PendingRequests, [ImpactPoint |-> ImpactPoint])
    /\ IF ~bTimerActive /\ bcWorld
       THEN /\ ClusterTimer' = ClusterWindowTime
            /\ bTimerActive' = TRUE
       ELSE UNCHANGED <<ClusterTimer, bTimerActive>>
    /\ bcCall' = [op |-> "RegisterRequest", n |-> Len(PendingRequests) + 1,
                  threshold |-> ClusterCountThreshold,
                  started |-> (~bTimerActive /\ bcWorld), executed |-> <<>>]
    /\ UNCHANGED <<ClusterCountThreshold, bcWorld, OwnerMesh>>
    /\ UNCHANGED clusterFrame

\* the timer manager counts the handle down
AdvanceTime ==
    /\ ClusterTimer > 1
    /\ ClusterTimer' = ClusterTimer - 1
    /\ bcCall' = [op |-> "AdvanceTime", n |-> Len(PendingRequests),
                  threshold |-> ClusterCountThreshold, started |-> FALSE,
                  executed |-> <<>>]
    /\ UNCHANGED <<ClusterCountThreshold, PendingRequests, bTimerActive, bcWorld,
                   OwnerMesh>>
    /\ UNCHANGED clusterFrame

\* UBulletClusterComponent::ClearPendingRequests: <<bTimerActive, ClusterTimer>> after
ClearPendingRequests(active, timer, world) ==
    IF active /\ world THEN <<FALSE, 0>> ELSE <<active, timer>>

\* UBulletClusterComponent::OnClusterWindowExpired, called by the timer manager when
\* the one-shot timer runs out (the handle is cleared before the call)
OnClusterWindowExpired ==
    /\ ClusterTimer = 1
    /\ \E fits \in SUBSET (1..Len(PendingRequests)) :
       \E Clusters \in {ProcessClustering(PendingRequests, ClusterCountThreshold, fits)} :
       \E found \in SUBSET (1..Len(Clusters)) :
          /\ bcCall' = [op |-> "OnClusterWindowExpired", n |-> Len(PendingRequests),
                        threshold |-> ClusterCountThreshold, started |-> FALSE,
                        executed |->
                            IF Len(PendingRequests) < ClusterCountThreshold THEN <<>>
                            ELSE IF Len(Clusters) > 0
                            THEN ExecuteDestruction(Clusters, OwnerMesh, found, 1)
                            ELSE <<>>]
          /\ bTimerActive' = ClearPendingRequests(FALSE, 0, bcWorld)[1]
          /\ ClusterTimer' = ClearPendingRequests(FALSE, 0, bcWorld)[2]
    /\ PendingRequests' = <<>>
    /\ UNCHANGED <<ClusterCountThreshold, bcWorld, OwnerMesh>>
    /\ UNCHANGED clusterFrame

\* UBulletClusterComponent::EndPlay
EndPlay ==
    /\ bTimerActive' = ClearPendingRequests(bTimerActive, ClusterTimer, bcWorld)[1]
    /\ ClusterTimer' = ClearPendingRequests(bTimerActive, ClusterTimer, bcWorld)[2]
    /\ PendingRequests' = <<>>
    /\ bcCall' = [op |-> "EndPlay", n |-> Len(PendingRequests),
                  threshold |-> ClusterCountThreshold, started |-> FALSE,
                  executed |-> <<>>]
    /\ UNCHANGED <<ClusterCountThreshold, bcWorld, OwnerMesh>>
    /\ UNCHANGED clusterFrame

NextCluster ==
    \/ \E t \in ClusterThresholds : ClusterInit(t)
    \/ \E m \in BOOLEAN : SetOwnerMesh(m)
    \/ RegisterWithWorld
    \/ \E p \in ImpactPoints : RegisterRequest(p)
    \/ AdvanceTime
    \/ OnClusterWindowExpired
    \/ EndPlay

SpecCluster == InitCluster /\ [][NextCluster]_vars

\* C37: the cluster timer is started only by a request registered while no window is
\* active; a later request of the window leaves the remaining time as it is; when
\* the window expires the pending buffer is empty and the timer inactive whichever
\* path the handler took; nothing is destroyed when fewer than ClusterCountThreshold
\* requests were collected, and no cluster with fewer than ClusterCountThreshold
\* members is destroyed.
C37_ClusterWindow ==
    /\ [][ /\ ClusterTimer' > ClusterTimer
              => /\ bcCall'.op = "RegisterRequest"
                 /\ ~bTimerActive
                 /\ ClusterTimer = 0
           /\ (bcCall'.op = "RegisterRequest" /\ bTimerActive)
              => /\ ClusterTimer' = ClusterTimer
                 /\ bTimerActive'
           /\ bcCall'.op = "OnClusterWindowExpired"
              => /\ PendingRequests' = <<>>
                 /\ ~bTimerActive'
                 /\ ClusterTimer' = 0 ]_vars
    /\ [](/\ bTimerActive <=> ClusterTimer > 0
          /\ bcCall.executed # <<>> => bcCall.op = "OnClusterWindowExpired"
          /\ bcCall.op = "OnClusterWindowExpired"
                => /\ bcCall.n < bcCall.threshold => bcCall.executed = <<>>
                   /\ \A k \in 1..Len(bcCall.executed) :
                         ~(Len(bcCall.executed[k].MemberPoints) < bcCall.threshold))

\* three requests in one window with a threshold of two: the cluster of the two
\* close impacts is destroyed, the lone impact is not, and the window is over
C37_Witness ==
    /\ bcCall.op = "OnClusterWindowExpired"
    /\ bcCall.n = 3
    /\ bcCall.threshold = 2
    /\ bcCall.executed = <<[MemberPoints |-> <<0, 1>>]>>
    /\ PendingRequests = <<>>
    /\ ~bTimerActive
    /\ ClusterTimer = 0

====
